---- MODULE Spec2Model ----
(***************************************************************************)
(* Content-artifact lifecycle of d_brain (services/processor.py and the    *)
(* bot handlers that drive it): material collection with the summary       *)
(* cache, seed artifacts and their extraction, the dismissal registry, the *)
(* publication matcher and the weekly plan store.                          *)
(*                                                                         *)
(* Dates are day numbers; an ISO week id is the week index day \div 7 (the *)
(* rendering f"{year}-W{week:02d}" is injective and order preserving).     *)
(* Every call of subprocess.run is split into a dispatch step and a return *)
(* step: the handlers run the core in worker threads (asyncio.to_thread),  *)
(* so other requests and the clock advance while a call is in flight.      *)
(***************************************************************************)
EXTENDS Integers, Sequences, FiniteSets, TLC

VARIABLES
    today,          \* date.today()
    daily,          \* vault/daily/<date>.md
    meetings,       \* vault/content/meetings/<date ...>.md (transcripts)
    summaries,      \* vault/content/meetings/<stem>.summary.md (cache)
    thoughts,       \* vault/thoughts/<date ...>.md
    seedFiles,      \* vault/content/seeds/<week>-seeds.md
    plans,          \* vault/content/plans/<week>-plan.md
    dismissedFile,  \* vault/content/seeds/.dismissed.json
    pc,             \* per request: where its thread stands
    op,             \* per request: the entry point it runs
    loc,            \* per request: the locals of the running entry point
    result,         \* per request: the value the entry point returned
    summarizerCalls,\* per transcript: subprocess.run calls of _summarize_meeting
    dismissLog      \* the last two dismiss_seeds calls, the older first

vars == <<today, daily, meetings, summaries, thoughts, seedFiles, plans,
          dismissedFile, pc, op, loc, result, summarizerCalls, dismissLog>>

vault == <<daily, meetings, summaries, thoughts, seedFiles, plans, dismissedFile>>

-----------------------------------------------------------------------------
(* Bounds of the model *)

MaxDay == 15
MaxWeek == 10
MaxCalls == 2

(* Program constants *)

DaysPerWeek == 7
CollectDays == 7
SummarizeThreshold == 5000

Days == 0..MaxDay
Weeks == 0..MaxWeek
Procs == {"r1", "r2"}

WeekOf(d) == d \div DaysPerWeek

NoFile == [absent |-> TRUE]
Exists(f) == "absent" \notin DOMAIN f

\* a file that exists and whose read_text raises (bytes that are not UTF-8,
\* permissions)
Unreadable == [unreadable |-> TRUE]

NoLoc == [none |-> TRUE]
NoResult == [none |-> TRUE]

-----------------------------------------------------------------------------
(* Text helpers *)

Whitespace == {" ", "\n"}

RECURSIVE LStrip(_)
LStrip(s) ==
    IF s # <<>> /\ Head(s) \in Whitespace THEN LStrip(Tail(s)) ELSE s

RECURSIVE RStrip(_)
RStrip(s) ==
    IF s # <<>> /\ s[Len(s)] \in Whitespace
    THEN RStrip(SubSeq(s, 1, Len(s) - 1)) ELSE s

\* str.strip() on a text given as a sequence of tokens
Strip(s) == RStrip(LStrip(s))

-----------------------------------------------------------------------------
(* The generation collaborator: the outcomes of one subprocess.run *)

Exit(code, out, err) == [kind |-> "exit", returncode |-> code, stdout |-> out, stderr |-> err]
TimeoutExpired == [kind |-> "timeout"]
CliNotFound == [kind |-> "notfound"]
OtherError == [kind |-> "oserror", message |-> "oserror"]

Stderrs == {"", "stderr text"}

Outcomes(stdouts) ==
    {Exit(0, o, "") : o \in stdouts}
        \cup {Exit(1, <<>>, e) : e \in Stderrs}
        \cup {TimeoutExpired, CliNotFound, OtherError}

OrDefault(err, default) == IF err # "" THEN err ELSE default

ErrorResult(msg) == [error |-> msg, processed_entries |-> 0]
ReportResult(output) == [report |-> output, processed_entries |-> 1]

-----------------------------------------------------------------------------
(* Material collection and the summary cache *)

\* a transcript or thought file, named by the date its file name starts with
\* (md_file.name[:10]): its length in characters and its text
TextFile(n, t) == [len |-> n, text |-> t]

IsBlank(t) == Strip(t) = <<>>

CachePrefix == "[SUMMARY]"

SummaryStdouts == {<<"S1">>, <<"S2">>, <<"\n">>}

\* sorted(dir.glob("*.md"), reverse=True) over the names of a directory
RECURSIVE SortedDesc(_)
SortedDesc(S) ==
    IF S = {} THEN <<>>
    ELSE LET m == CHOOSE a \in S : \A b \in S : b <= a IN
         <<m>> \o SortedDesc(S \ {m})

FilesIn(dir) == {k \in DOMAIN dir : Exists(dir[k])}

\* mutant of CacheHit: the cache is never consulted
CacheHitNever(cache, name) == FALSE

\* _summarize_meeting, cache check: the cache file exists and is not blank
CacheHit(cache, name) == Exists(cache[name]) /\ ~IsBlank(cache[name].text)

CachedSummary(cache, name) == <<CachePrefix, "\n">> \o cache[name].text

\* mutant of SummaryUsable: an empty answer counts as a summary
SummaryUsableIfExitZero(o) == o.kind = "exit" /\ o.returncode = 0

\* _summarize_meeting, after subprocess.run: TRUE when the summary is used
SummaryUsable(o) == o.kind = "exit" /\ o.returncode = 0 /\ ~IsBlank(o.stdout)

\* mutant of DailyParts: the day today-days is read as well
DailyPartsFromCutoff(t, dfiles) ==
    LET Part(i) ==
            LET day == t - i IN
            IF day \in DOMAIN dfiles /\ Exists(dfiles[day]) /\ ~IsBlank(dfiles[day].text)
            THEN <<[kind |-> "DAILY", id |-> day, content |-> dfiles[day].text]>>
            ELSE <<>>
        F[i \in 0..(CollectDays + 1)] ==
            IF i = CollectDays + 1 THEN <<>> ELSE Part(i) \o F[i + 1]
    IN F[0]

\* the daily notes of _collect_raw_material: range(days) back from today
DailyParts(t, dfiles) ==
    LET Part(i) ==
            LET day == t - i IN
            IF day \in DOMAIN dfiles /\ Exists(dfiles[day]) /\ ~IsBlank(dfiles[day].text)
            THEN <<[kind |-> "DAILY", id |-> day, content |-> dfiles[day].text]>>
            ELSE <<>>
        F[i \in 0..CollectDays] ==
            IF i = CollectDays THEN <<>> ELSE Part(i) \o F[i + 1]
    IN F[0]

\* the thoughts of _collect_raw_material: newest first, on or after the cutoff
ThoughtParts(t, tfiles) ==
    LET cutoff == t - CollectDays
        names == SortedDesc(FilesIn(tfiles))
        Part(n) ==
            IF n >= cutoff /\ ~IsBlank(tfiles[n].text)
            THEN <<[kind |-> "THOUGHT", id |-> n, content |-> tfiles[n].text]>>
            ELSE <<>>
        F[i \in 1..(Len(names) + 1)] ==
            IF i > Len(names) THEN <<>> ELSE Part(names[i]) \o F[i + 1]
    IN F[1]

MeetingPart(name, content) == [kind |-> "MEETING", id |-> name, content |-> content]

-----------------------------------------------------------------------------
(* Artifact text format *)

\* first index j >= 2 with s[j] = close and no line break before it, else 0
CloseIdx(s, close) ==
    LET C == {j \in 2..Len(s) : s[j] = close /\ \A k \in 2..(j - 1) : s[k] # "\n"}
    IN IF C = {} THEN 0 ELSE CHOOSE j \in C : \A k \in C : j <= k

\* re.sub(open + "(.*?)" + close, md + "\1" + md2, text): leftmost,
\* shortest, not across a line break, not overlapping
RECURSIVE SubPair(_, _, _, _, _)
SubPair(s, open, close, mo, mc) ==
    IF s = <<>> THEN <<>>
    ELSE IF Head(s) = open /\ CloseIdx(s, close) # 0
         THEN LET j == CloseIdx(s, close) IN
              <<mo>> \o SubSeq(s, 2, j - 1) \o <<mc>>
                  \o SubPair(SubSeq(s, j + 1, Len(s)), open, close, mo, mc)
         ELSE <<Head(s)>> \o SubPair(Tail(s), open, close, mo, mc)

\* re.sub("</?u>", "", text)
DropTokens(s, drop) == SelectSeq(s, LAMBDA t : t \notin drop)

\* _html_to_markdown over texts without anchors
HtmlToMarkdown(html) ==
    LET b == SubPair(html, "<b>", "</b>", "**", "**")
        i == SubPair(b, "<i>", "</i>", "*", "*")
        c == SubPair(i, "<code>", "</code>", "BACKTICK", "BACKTICK")
        x == SubPair(c, "<s>", "</s>", "~~", "~~")
    IN DropTokens(x, {"<u>", "</u>"})

\* the frontmatter _save_content_seeds and _save_content_plan write
Frontmatter(d, type) ==
    <<"---", "\n", "date:", " ", ToString(d), "\n", "type:", " ", type, "\n",
      "week:", " ", ToString(WeekOf(d)), "\n", "---", "\n", "\n">>

ArtifactFile(html, d, type) == [text |-> Frontmatter(d, type) \o HtmlToMarkdown(html)]

\* content.find("---", 3) after content.startswith("---"): 0 stands for -1
FindDelimiter(text) ==
    LET C == {j \in 2..Len(text) : text[j] = "---"}
    IN IF C = {} THEN 0 ELSE CHOOSE j \in C : \A k \in C : j <= k

\* the frontmatter stripping of get_current_plan and _extract_seed_titles
StripFrontmatter(text) ==
    IF text # <<>> /\ Head(text) = "---" /\ FindDelimiter(text) # 0
    THEN Strip(SubSeq(text, FindDelimiter(text) + 1, Len(text)))
    ELSE text

-----------------------------------------------------------------------------
(* generate_content_seeds *)

SeedStdouts ==
    { <<"<b>", "Seed #1: X", "</b>", "\n", "hook", "\n", "Seed #2: Y", "\n">>,
      <<"Seed #2: X", "\n", "Seed #1: Y">>,
      <<"\n">> }

\* an exception leaves the entry point which: the request ends without a
\* result dict
Raises(p, which, exception) ==
    /\ pc[p] = "idle"
    /\ pc' = [pc EXCEPT ![p] = "raised"]
    /\ op' = [op EXCEPT ![p] = which]
    /\ loc' = [loc EXCEPT ![p] = NoLoc]
    /\ result' = [result EXCEPT ![p] = [raised |-> exception]]
    /\ UNCHANGED <<today, vault, summarizerCalls, dismissLog>>

\* the handler's task has ended with the exception
Abandon(p) ==
    /\ pc[p] = "raised"
    /\ pc' = [pc EXCEPT ![p] = "idle"]
    /\ op' = [op EXCEPT ![p] = "none"]
    /\ result' = [result EXCEPT ![p] = NoResult]
    /\ UNCHANGED <<today, vault, loc, summarizerCalls, dismissLog>>

\* daily_file.read_text() of _collect_raw_material raises
DailyReadFails(t, dfiles) ==
    \E i \in 0..(CollectDays - 1) : t - i \in DOMAIN dfiles /\ dfiles[t - i] = Unreadable

\* generate_content_seeds when _collect_raw_material raises: the call is
\* outside the try block
GenSeedsRaises(p) == DailyReadFails(today, daily) /\ Raises(p, "seeds", "read_text")

\* generate_content_seeds up to the loop over the transcripts
GenSeedsStart(p) ==
    /\ pc[p] = "idle"
    /\ ~DailyReadFails(today, daily)
    /\ pc' = [pc EXCEPT ![p] = "collect"]
    /\ op' = [op EXCEPT ![p] = "seeds"]
    /\ loc' = [loc EXCEPT ![p] =
                 [today |-> today,
                  parts |-> DailyParts(today, daily),
                  queue |-> SortedDesc(FilesIn(meetings)),
                  cur |-> 0, curText |-> <<>>, hits |-> {}, sres |-> NoResult]]
    /\ UNCHANGED <<today, vault, result, summarizerCalls, dismissLog>>

\* one iteration of the transcript loop of _collect_raw_material, up to the
\* subprocess.run of _summarize_meeting when the transcript is long and not
\* cached; hits are the transcripts logged "Using cached summary"
CollectMeeting(p) ==
    /\ pc[p] = "collect"
    /\ loc[p].queue # <<>>
    /\ LET n == Head(loc[p].queue)
           f == meetings[n]
           cutoff == loc[p].today - CollectDays
           take == Exists(f) /\ n >= cutoff /\ ~IsBlank(f.text)
           long == take /\ f.len > SummarizeThreshold
           miss == long /\ ~CacheHit(summaries, n)
           content == IF long THEN CachedSummary(summaries, n) ELSE f.text
       IN /\ miss => summarizerCalls[n] < MaxCalls
          /\ pc' = [pc EXCEPT ![p] = IF miss THEN "summarizing" ELSE "collect"]
          /\ loc' = [loc EXCEPT ![p] =
                       [@ EXCEPT !.queue = Tail(@),
                                 !.parts = IF take /\ ~miss
                                           THEN @ \o <<MeetingPart(n, content)>> ELSE @,
                                 !.cur = IF miss THEN n ELSE 0,
                                 !.curText = IF miss THEN f.text ELSE <<>>,
                                 !.hits = IF long /\ ~miss THEN @ \cup {n} ELSE @,
                                 !.sres = NoResult]]
          /\ summarizerCalls' =
                 IF miss THEN [summarizerCalls EXCEPT ![n] = @ + 1] ELSE summarizerCalls
    /\ UNCHANGED <<today, vault, op, result, dismissLog>>

\* _summarize_meeting from the return of subprocess.run (sres is what it
\* returned or raised); writeOk is whether cache_file.write_text succeeds
SummarizeReturn(p, o, writeOk) ==
    /\ pc[p] = "summarizing"
    /\ LET n == loc[p].cur
           summary == Strip(o.stdout)
           used == SummaryUsable(o)
           returned == IF used THEN <<CachePrefix, "\n">> \o summary ELSE loc[p].curText
       IN /\ summaries' = IF used /\ writeOk
                          THEN [summaries EXCEPT ![n] = [text |-> summary]]
                          ELSE summaries
          /\ loc' = [loc EXCEPT ![p] =
                       [@ EXCEPT !.parts = @ \o <<MeetingPart(n, returned)>>,
                                 !.cur = 0, !.curText = <<>>, !.sres = o]]
    /\ pc' = [pc EXCEPT ![p] = "collect"]
    /\ UNCHANGED <<today, daily, meetings, thoughts, seedFiles, plans, dismissedFile,
                   op, result, summarizerCalls, dismissLog>>

\* mutant of CollectFinish: the prompt is built and sent whatever was found
CollectFinishUnchecked(p) ==
    /\ pc[p] = "collect"
    /\ op[p] = "seeds"
    /\ loc[p].queue = <<>>
    /\ LET parts == loc[p].parts \o ThoughtParts(loc[p].today, thoughts)
       IN loc' = [loc EXCEPT ![p] = [@ EXCEPT !.parts = parts, !.sres = NoResult]]
    /\ pc' = [pc EXCEPT ![p] = "generating"]
    /\ UNCHANGED <<today, vault, op, result, summarizerCalls, dismissLog>>

\* the rest of _collect_raw_material and generate_content_seeds up to its
\* subprocess.run
CollectFinish(p) ==
    /\ pc[p] = "collect"
    /\ op[p] = "seeds"
    /\ loc[p].queue = <<>>
    /\ LET parts == loc[p].parts \o ThoughtParts(loc[p].today, thoughts)
       IN /\ loc' = [loc EXCEPT ![p] = [@ EXCEPT !.parts = parts, !.sres = NoResult]]
          /\ pc' = [pc EXCEPT ![p] = IF parts = <<>> THEN "done" ELSE "generating"]
          /\ result' = [result EXCEPT ![p] =
                          IF parts = <<>> THEN ErrorResult("no material") ELSE @]
    /\ UNCHANGED <<today, vault, op, summarizerCalls, dismissLog>>

\* what an entry point returns for an outcome of its subprocess.run
CallResult(o, failed, timedOut, hasNotFound) ==
    CASE o.kind = "exit" /\ o.returncode # 0 -> ErrorResult(OrDefault(o.stderr, failed))
      [] o.kind = "exit" /\ o.returncode = 0 -> ReportResult(Strip(o.stdout))
      [] o.kind = "timeout" -> ErrorResult(timedOut)
      [] o.kind = "notfound" ->
            ErrorResult(IF hasNotFound THEN "Claude CLI not installed" ELSE "notfound")
      [] OTHER -> ErrorResult(o.message)

\* mutant of Succeeded: the exit code is not looked at
SucceededOnAnyExit(o) == o.kind = "exit"

Succeeded(o) == o.kind = "exit" /\ o.returncode = 0

\* generate_content_seeds from the return of subprocess.run; writeOk is
\* whether _save_content_seeds succeeds
GenSeedsReturn(p, o, writeOk) ==
    /\ pc[p] = "generating"
    /\ op[p] = "seeds"
    /\ seedFiles' =
           IF Succeeded(o) /\ writeOk
           THEN [seedFiles EXCEPT ![WeekOf(loc[p].today)] =
                    ArtifactFile(Strip(o.stdout), loc[p].today, "content-seeds")]
           ELSE seedFiles
    /\ result' = [result EXCEPT ![p] =
                    CallResult(o, "Content seeds generation failed",
                               "Content seeds generation timed out", TRUE)]
    /\ pc' = [pc EXCEPT ![p] = "done"]
    /\ UNCHANGED <<today, daily, meetings, summaries, thoughts, plans, dismissedFile,
                   op, loc, summarizerCalls, dismissLog>>

\* the handler has relayed the result: the request slot is free again
Finish(p) ==
    /\ pc[p] = "done"
    /\ pc' = [pc EXCEPT ![p] = "idle"]
    /\ op' = [op EXCEPT ![p] = "none"]
    /\ loc' = [loc EXCEPT ![p] = NoLoc]
    /\ result' = [result EXCEPT ![p] = NoResult]
    /\ UNCHANGED <<today, vault, summarizerCalls, dismissLog>>

\* a week passes
TickWeek ==
    /\ today + DaysPerWeek <= MaxDay
    /\ today' = today + DaysPerWeek
    /\ UNCHANGED <<vault, pc, op, loc, result, summarizerCalls, dismissLog>>

\* a day passes
Tick ==
    /\ today < MaxDay
    /\ today' = today + 1
    /\ UNCHANGED <<vault, pc, op, loc, result, summarizerCalls, dismissLog>>

-----------------------------------------------------------------------------
(* Seed extraction: _extract_seed_titles *)

Lookback == 8

\* the lines the pattern "Seed #N: title" matches, with group 1 and group 2;
\* in the texts of the model such a line ends after the token or after a
\* closing "**"
HeaderTokens == {"Seed #1: X", "Seed #1: Y", "Seed #2: X", "Seed #2: Y"}
HeaderNum(t) == IF t \in {"Seed #1: X", "Seed #1: Y"} THEN 1 ELSE 2
HeaderTitle(t) == IF t \in {"Seed #1: X", "Seed #2: X"} THEN "X" ELSE "Y"

\* re.search(r"week:\s*(\S+)", content), else the week of the file name
WeekOfFile(key, text) ==
    LET Val(i) == {j \in (i + 1)..Len(text) :
                      /\ text[j] \notin Whitespace
                      /\ \A k \in (i + 1)..(j - 1) : text[k] \in Whitespace}
        C == {i \in 1..Len(text) : text[i] = "week:" /\ Val(i) # {}}
    IN IF C = {} THEN ToString(key)
       ELSE LET i == CHOOSE a \in C : \A b \in C : a <= b
            IN text[CHOOSE j \in Val(i) : TRUE]

\* m.start() of every match of seed_pattern in the body, ascending: a
\* header token, or the "**" right before it
SeedStarts(body) ==
    LET H == {i \in 1..Len(body) : body[i] \in HeaderTokens}
        Start(i) == IF i > 1 /\ body[i - 1] = "**" THEN i - 1 ELSE i
        F[i \in 1..(Len(body) + 1)] ==
            IF i > Len(body) THEN <<>>
            ELSE (IF i \in H THEN <<[at |-> Start(i), tok |-> body[i]]>> ELSE <<>>) \o F[i + 1]
    IN F[1]

\* the seeds of one seed file, in the order of their headers
FileSeeds(key, text) ==
    LET week == WeekOfFile(key, text)
        body == StripFrontmatter(text)
        starts == SeedStarts(body)
        EndPos(i) == IF i + 1 <= Len(starts) THEN starts[i + 1].at - 1 ELSE Len(body)
    IN [i \in 1..Len(starts) |->
          [week |-> week,
           num |-> HeaderNum(starts[i].tok),
           title |-> HeaderTitle(starts[i].tok),
           full_text |-> Strip(SubSeq(body, starts[i].at, EndPos(i)))]]

\* mutant of RecentFiles: every file, however old
RecentFilesAll(files, n) == SortedDesc(FilesIn(files))

\* sorted(seeds_dir.glob("*.md"), reverse=True)[:n]
RecentFiles(files, n) ==
    LET all == SortedDesc(FilesIn(files))
    IN SubSeq(all, 1, IF Len(all) < n THEN Len(all) ELSE n)

\* f.read_text() raises for one of the n most recent seed files
SeedReadFails(files, n) ==
    LET recent == RecentFiles(files, n)
    IN \E i \in DOMAIN recent : files[recent[i]] = Unreadable

\* _extract_seed_titles
ExtractSeedTitles(files) ==
    LET recent == RecentFiles(files, Lookback)
        F[i \in 1..(Len(recent) + 1)] ==
            IF i > Len(recent) THEN <<>>
            ELSE FileSeeds(recent[i], files[recent[i]].text) \o F[i + 1]
    IN F[1]

\* _load_all_seeds: the files whose text makes up the backlog
LoadAllSeeds(files, max_weeks) ==
    LET recent == RecentFiles(files, max_weeks)
    IN [i \in 1..Len(recent) |-> [stem |-> recent[i], text |-> files[recent[i]].text]]

-----------------------------------------------------------------------------
(* The dismissal registry: .dismissed.json *)

\* f"{s['week']}:{s['num']}"
SeedKey(seed) == <<seed.week, seed.num>>

WeekIndex(str) == CHOOSE w \in Weeks : ToString(w) = str

\* order of the key strings (week ids zero padded, one digit seed numbers)
KeyBefore(a, b) ==
    \/ WeekIndex(a[1]) < WeekIndex(b[1])
    \/ a[1] = b[1] /\ a[2] < b[2]

\* sorted(dismissed)
RECURSIVE SortedKeys(_)
SortedKeys(S) ==
    IF S = {} THEN <<>>
    ELSE LET m == CHOOSE a \in S : \A b \in S \ {a} : KeyBefore(a, b) IN
         <<m>> \o SortedKeys(S \ {m})

Range(seq) == {seq[i] : i \in DOMAIN seq}

\* the record's content: a JSON object with the list, a JSON value of
\* another shape, or text that is not JSON
DismissedRecord(keys) == [json |-> "object", dismissed |-> keys]
WrongShapeRecord == [json |-> "list"]
NotJsonRecord == [json |-> "invalid"]

\* further contents: a top level JSON list of keys; an object whose
\* "dismissed" member is a number; an object whose "dismissed" member is
\* itself an object with the given member names
TopLevelListRecord(keys) == [json |-> "list", items |-> keys]
NumberMemberRecord == [json |-> "object/number"]
ObjectMemberRecord(names) == [json |-> "object/object", names |-> names]

\* mutant of LoadDismissed: a top level list is taken for the list of keys
LoadDismissedAnyList(f) ==
    IF ~Exists(f) \/ f = Unreadable THEN {}
    ELSE IF f.json = "object" THEN Range(f.dismissed)
    ELSE IF f.json = "object/object" THEN Range(f.names)
    ELSE IF f.json = "list" /\ "items" \in DOMAIN f THEN Range(f.items)
    ELSE {}

\* _load_dismissed: set() of the member "dismissed"; a missing file, a
\* failing read, text that is not JSON, a top level value without get() and
\* a member set() cannot iterate all end in the empty set
LoadDismissed(f) ==
    IF ~Exists(f) \/ f = Unreadable THEN {}
    ELSE IF f.json = "object" THEN Range(f.dismissed)
    ELSE IF f.json = "object/object" THEN Range(f.names)
    ELSE {}

\* mutant of DismissLoop: counts a seed without looking it up in the set
DismissLoopCountAll(dismissed, count, seeds) ==
    [dismissed |-> dismissed \cup {SeedKey(seeds[i]) : i \in DOMAIN seeds},
     count |-> count + Len(seeds)]

\* mutant of DismissLoop: the set saved holds the keys passed in and no more
DismissLoopReplacing(dismissed, count, seeds) ==
    [dismissed |-> {SeedKey(seeds[i]) : i \in DOMAIN seeds}, count |-> Len(seeds)]

\* the loop of dismiss_seeds: the set and the count after the seeds
RECURSIVE DismissLoop(_, _, _)
DismissLoop(dismissed, count, seeds) ==
    IF seeds = <<>> THEN [dismissed |-> dismissed, count |-> count]
    ELSE LET key == SeedKey(Head(seeds)) IN
         IF key \notin dismissed
         THEN DismissLoop(dismissed \cup {key}, count + 1, Tail(seeds))
         ELSE DismissLoop(dismissed, count, Tail(seeds))

\* the seeds a dismiss command can name: those of a listing (on_seed_number)
SeqsUpTo(S, n) == UNION {[1..k -> S] : k \in 1..n}

\* dismiss_seeds, called by on_seed_number in the event loop
DismissSeeds(p, seeds) ==
    /\ pc[p] = "idle"
    /\ LET loaded == LoadDismissed(dismissedFile)
           end == DismissLoop(loaded, 0, seeds)
       IN /\ dismissedFile' = DismissedRecord(SortedKeys(end.dismissed))
          /\ result' = [result EXCEPT ![p] = [count |-> end.count]]
    /\ pc' = [pc EXCEPT ![p] = "done"]
    /\ op' = [op EXCEPT ![p] = "dismiss"]
    /\ loc' = [loc EXCEPT ![p] = [seeds |-> seeds]]
    /\ UNCHANGED <<today, daily, meetings, summaries, thoughts, seedFiles, plans,
                   summarizerCalls>>

\* mutant of SaverBase: the saver merges what is on disk at the time it saves
SaverBaseMerged(loaded, onDisk) == loaded \cup onDisk

\* the set the loop of dismiss_seeds adds to: the one loaded at its start
SaverBase(loaded, onDisk) == loaded

\* dismiss_seeds called from a thread of its own, up to the end of
\* _load_dismissed
DismissLoad(p, seeds) ==
    /\ pc[p] = "idle"
    /\ pc' = [pc EXCEPT ![p] = "dismissing"]
    /\ op' = [op EXCEPT ![p] = "dismiss"]
    /\ loc' = [loc EXCEPT ![p] = [seeds |-> seeds, dismissed |-> LoadDismissed(dismissedFile)]]
    /\ UNCHANGED <<today, vault, result, summarizerCalls, dismissLog>>

\* the rest of dismiss_seeds: the loop and _save_dismissed
DismissSave(p) ==
    /\ pc[p] = "dismissing"
    /\ LET base == SaverBase(loc[p].dismissed, LoadDismissed(dismissedFile))
           end == DismissLoop(base, 0, loc[p].seeds)
       IN /\ dismissedFile' = DismissedRecord(SortedKeys(end.dismissed))
          /\ result' = [result EXCEPT ![p] = [count |-> end.count]]
    /\ pc' = [pc EXCEPT ![p] = "done"]
    /\ UNCHANGED <<today, daily, meetings, summaries, thoughts, seedFiles, plans,
                   op, loc, summarizerCalls, dismissLog>>

-----------------------------------------------------------------------------
(* The publication matcher: list_unpublished_seeds *)

\* the matcher's answers, character by character
MatcherStdouts ==
    { <<"n", "o", "n", "e">>,
      <<"N", "o", "n", "e", "\n">>,
      <<"1">>,
      <<"2">>,
      <<"1", ",", "2">>,
      <<"1", ",", " ", "3", "\n">>,
      <<"0", ",", "2", "1">>,
      <<"s", "e", "e", "d", " ", "2", "?">>,
      <<"n", "o", " ", "i", "d", "e", "a">>,
      <<>> }

DigitValue == [c \in {"0", "1", "2", "3"} |-> CASE c = "0" -> 0 [] c = "1" -> 1
                                                [] c = "2" -> 2 [] OTHER -> 3]
Digits == DOMAIN DigitValue

\* str.lower() on the letters of the answers
Lower(s) == [i \in DOMAIN s |-> CASE s[i] = "N" -> "n" [] s[i] = "O" -> "o"
                                  [] s[i] = "E" -> "e" [] OTHER -> s[i]]

\* mutant of FindNumbers: every digit is a number of its own (r"\d")
FindDigits(s, inRun, acc) ==
    LET d == SelectSeq(s, LAMBDA c : c \in Digits)
    IN [i \in DOMAIN d |-> DigitValue[d[i]]]

\* [int(n) for n in re.findall(r"\d+", s)]: the maximal runs of digits
RECURSIVE FindNumbers(_, _, _)
FindNumbers(s, inRun, acc) ==
    IF s = <<>> THEN (IF inRun THEN <<acc>> ELSE <<>>)
    ELSE IF Head(s) \in Digits
         THEN FindNumbers(Tail(s), TRUE, 10 * acc + DigitValue[Head(s)])
         ELSE (IF inRun THEN <<acc>> ELSE <<>>) \o FindNumbers(Tail(s), FALSE, 0)

\* mutant of PublishedIndices: the numbers are not restricted to 1..n
PublishedIndicesUnfiltered(o, n) ==
    IF o.returncode = 0 /\ Lower(Strip(o.stdout)) # <<"n", "o", "n", "e">>
    THEN Range(FindNumbers(Strip(o.stdout), FALSE, 0))
    ELSE {}

\* published_indices of list_unpublished_seeds for a completed process
PublishedIndices(o, n) ==
    IF o.returncode = 0 /\ Lower(Strip(o.stdout)) # <<"n", "o", "n", "e">>
    THEN {k \in Range(FindNumbers(Strip(o.stdout), FALSE, 0)) : 1 <= k /\ k <= n}
    ELSE {}

Flagged(seed, flag) ==
    [week |-> seed.week, num |-> seed.num, title |-> seed.title,
     full_text |-> seed.full_text, published |-> flag]

\* mutant of ActiveSeeds: compares the seed number alone, not week:num
ActiveSeedsByNum(all_seeds, dismissed) ==
    SelectSeq(all_seeds, LAMBDA s : s.num \notin {k[2] : k \in dismissed})

\* active_seeds of list_unpublished_seeds
ActiveSeeds(all_seeds, dismissed) ==
    SelectSeq(all_seeds, LAMBDA s : SeedKey(s) \notin dismissed)

\* list_unpublished_seeds when _extract_seed_titles raises: the call is
\* outside the try block
ListRaises(p) == SeedReadFails(seedFiles, Lookback) /\ Raises(p, "list", "read_text")

\* list_unpublished_seeds up to its subprocess.run
ListStart(p) ==
    /\ pc[p] = "idle"
    /\ ~SeedReadFails(seedFiles, Lookback)
    /\ op' = [op EXCEPT ![p] = "list"]
    /\ LET all_seeds == ExtractSeedTitles(seedFiles)
           dismissed == LoadDismissed(dismissedFile)
           active_seeds == ActiveSeeds(all_seeds, dismissed)
       IN /\ loc' = [loc EXCEPT ![p] =
                       [all_seeds |-> all_seeds, dismissed |-> dismissed,
                        active_seeds |-> active_seeds,
                        dismissed_count |-> Len(all_seeds) - Len(active_seeds),
                        mres |-> NoResult]]
          /\ pc' = [pc EXCEPT ![p] =
                      IF all_seeds = <<>> \/ active_seeds = <<>> THEN "done" ELSE "matching"]
          /\ result' = [result EXCEPT ![p] =
                          IF all_seeds = <<>> THEN [error |-> "no seeds"]
                          ELSE IF active_seeds = <<>> THEN [error |-> "all seeds dismissed"]
                          ELSE @]
    /\ UNCHANGED <<today, vault, summarizerCalls, dismissLog>>

\* mutant of ListReturn: the seeds found published are remembered in the
\* registry
ListReturnPersisting(p, o) ==
    /\ pc[p] = "matching"
    /\ LET active == loc[p].active_seeds
           idx == IF o.kind = "exit" THEN PublishedIndices(o, Len(active)) ELSE {}
           seeds == [i \in DOMAIN active |-> Flagged(active[i], i \in idx)]
       IN /\ result' = [result EXCEPT ![p] =
                [seeds |-> seeds,
                 unpublished |-> SelectSeq(seeds, LAMBDA s : ~s.published),
                 total |-> Len(loc[p].all_seeds),
                 published_count |-> Cardinality(idx),
                 dismissed_count |-> loc[p].dismissed_count]]
          /\ dismissedFile' =
                DismissedRecord(SortedKeys(LoadDismissed(dismissedFile)
                                           \cup {SeedKey(active[i]) : i \in idx}))
    /\ loc' = [loc EXCEPT ![p] = [@ EXCEPT !.mres = o]]
    /\ pc' = [pc EXCEPT ![p] = "done"]
    /\ UNCHANGED <<today, daily, meetings, summaries, thoughts, seedFiles, plans, op,
                   summarizerCalls, dismissLog>>

\* list_unpublished_seeds from the return of subprocess.run (mres is what
\* it returned or raised)
ListReturn(p, o) ==
    /\ pc[p] = "matching"
    /\ LET active == loc[p].active_seeds
           idx == PublishedIndices(o, Len(active))
           seeds == [i \in DOMAIN active |-> Flagged(active[i], i \in idx)]
       IN result' = [result EXCEPT ![p] =
             IF o.kind = "exit"
             THEN [seeds |-> seeds,
                   unpublished |-> SelectSeq(seeds, LAMBDA s : ~s.published),
                   total |-> Len(loc[p].all_seeds),
                   published_count |-> Cardinality(idx),
                   dismissed_count |-> loc[p].dismissed_count]
             ELSE [seeds |-> active,
                   unpublished |-> active,
                   total |-> Len(loc[p].all_seeds),
                   published_count |-> 0,
                   dismissed_count |-> loc[p].dismissed_count]]
    /\ loc' = [loc EXCEPT ![p] = [@ EXCEPT !.mres = o]]
    /\ pc' = [pc EXCEPT ![p] = "done"]
    /\ UNCHANGED <<today, vault, op, summarizerCalls, dismissLog>>

-----------------------------------------------------------------------------
(* The plan store *)

PlanStdouts ==
    { <<"<b>", "Mon", "</b>", "\n", "post A">>,
      <<"Mon", "\n", "post B">>,
      <<"\n">> }

EditRequests == {"swap Mon"}
ChannelPosts == {"posts"}

\* the week id get_current_plan and plan_exists_for_week derive
TargetWeek(t, week_offset) == WeekOf(t + DaysPerWeek * week_offset)

\* get_current_plan
GetCurrentPlan(t, pl, week_offset) ==
    LET week_id == TargetWeek(t, week_offset) IN
    IF ~Exists(pl[week_id]) THEN [error |-> "plan not found"]
    ELSE [plan |-> StripFrontmatter(pl[week_id].text), week |-> week_id, path |-> week_id]

\* plan_path.read_text() of get_current_plan raises
PlanReadFails(t, pl, week_offset) == pl[TargetWeek(t, week_offset)] = Unreadable

\* plan_exists_for_week
PlanExistsForWeek(t, pl, week_offset) == Exists(pl[TargetWeek(t, week_offset)])

\* mutant of SaveContentPlan: appends to the artifact it finds
SaveContentPlanAppending(pl, html, plan_date) ==
    [pl EXCEPT ![WeekOf(plan_date)] =
        IF Exists(@) THEN [text |-> @.text \o HtmlToMarkdown(html)]
        ELSE ArtifactFile(html, plan_date, "content-plan")]

\* _save_content_plan
SaveContentPlan(pl, html, plan_date) ==
    [pl EXCEPT ![WeekOf(plan_date)] = ArtifactFile(html, plan_date, "content-plan")]

\* generate_content_plan up to its subprocess.run; exists0 is whether a plan
\* of the current week existed when the request was made
GenPlanStart(p, entry, target_date) ==
    /\ pc[p] = "idle"
    /\ ~SeedReadFails(seedFiles, Lookback)
    /\ op' = [op EXCEPT ![p] = "plan"]
    /\ LET seeds_content == LoadAllSeeds(seedFiles, Lookback) IN
       /\ loc' = [loc EXCEPT ![p] =
                    [entry |-> entry, today |-> target_date,
                     exists0 |-> PlanExistsForWeek(today, plans, 0),
                     requested |-> today,
                     seeds_content |-> [i \in DOMAIN seeds_content |-> seeds_content[i].stem]]]
       /\ pc' = [pc EXCEPT ![p] = IF seeds_content = <<>> THEN "done" ELSE "generating"]
       /\ result' = [result EXCEPT ![p] =
                       IF seeds_content = <<>> THEN ErrorResult("no content seeds") ELSE @]
    /\ UNCHANGED <<today, vault, summarizerCalls, dismissLog>>

\* generate_content_plan when _load_all_seeds raises: the call is outside
\* the try block
GenPlanRaises(p) == SeedReadFails(seedFiles, Lookback) /\ Raises(p, "plan", "read_text")

\* on_plan_new, to the dispatch of generate_content_plan
OnPlanNew(p) ==
    GenPlanStart(p, "plan:new",
                 IF PlanExistsForWeek(today, plans, 0) THEN today + DaysPerWeek ELSE today)

\* cmd_plan, to the dispatch of generate_content_plan (target_date=None)
CmdPlan(p) == GenPlanStart(p, "/plan", today)

\* generate_content_plan from the return of subprocess.run; writeOk is
\* whether _save_content_plan succeeds
GenPlanReturn(p, o, writeOk) ==
    /\ pc[p] = "generating"
    /\ op[p] = "plan"
    /\ plans' = IF Succeeded(o) /\ writeOk
                THEN SaveContentPlan(plans, Strip(o.stdout), loc[p].today)
                ELSE plans
    /\ result' = [result EXCEPT ![p] =
                    CallResult(o, "Content plan generation failed",
                               "Content plan generation timed out", TRUE)]
    /\ pc' = [pc EXCEPT ![p] = "done"]
    /\ UNCHANGED <<today, daily, meetings, summaries, thoughts, seedFiles, dismissedFile,
                   op, loc, summarizerCalls, dismissLog>>

\* edit_plan and reconcile_plan_with_channel up to subprocess.run
RevisePlanStart(p, which, input) ==
    /\ pc[p] = "idle"
    /\ ~PlanReadFails(today, plans, 0)
    /\ op' = [op EXCEPT ![p] = which]
    /\ LET plan_data == GetCurrentPlan(today, plans, 0) IN
       /\ loc' = [loc EXCEPT ![p] = [plan_data |-> plan_data, input |-> input]]
       /\ pc' = [pc EXCEPT ![p] = IF "error" \in DOMAIN plan_data THEN "done" ELSE "generating"]
       /\ result' = [result EXCEPT ![p] =
                       IF "error" \in DOMAIN plan_data THEN plan_data ELSE @]
    /\ UNCHANGED <<today, vault, summarizerCalls, dismissLog>>

\* edit_plan and reconcile_plan_with_channel when get_current_plan raises:
\* the call is outside the try block
RevisePlanRaises(p, which) == PlanReadFails(today, plans, 0) /\ Raises(p, which, "read_text")

EditPlanStart(p, user_request) == RevisePlanStart(p, "edit", user_request)
ReconcileStart(p, channel_posts) == RevisePlanStart(p, "reconcile", channel_posts)

\* edit_plan and reconcile_plan_with_channel from the return of
\* subprocess.run: the plan is saved under date.today() of that moment
RevisePlanReturn(p, which, o, writeOk, failed, timedOut) ==
    /\ pc[p] = "generating"
    /\ op[p] = which
    /\ plans' = IF Succeeded(o) /\ writeOk
                THEN SaveContentPlan(plans, Strip(o.stdout), today)
                ELSE plans
    /\ result' = [result EXCEPT ![p] = CallResult(o, failed, timedOut, FALSE)]
    /\ pc' = [pc EXCEPT ![p] = "done"]
    /\ UNCHANGED <<today, daily, meetings, summaries, thoughts, seedFiles, dismissedFile,
                   op, loc, summarizerCalls, dismissLog>>

EditPlanReturn(p, o, writeOk) ==
    RevisePlanReturn(p, "edit", o, writeOk, "Plan edit failed", "Plan edit timed out")
ReconcileReturn(p, o, writeOk) ==
    RevisePlanReturn(p, "reconcile", o, writeOk, "Reconciliation failed",
                     "Reconciliation timed out")

\* get_current_plan when plan_path.read_text() raises
GetPlanRaises(p, week_offset) ==
    PlanReadFails(today, plans, week_offset) /\ Raises(p, "get", "read_text")

\* on_plan_current: get_current_plan as an entry point of its own
OnPlanCurrent(p, week_offset) ==
    /\ pc[p] = "idle"
    /\ ~PlanReadFails(today, plans, week_offset)
    /\ op' = [op EXCEPT ![p] = "get"]
    /\ loc' = [loc EXCEPT ![p] = [week_offset |-> week_offset, requested |-> today]]
    /\ result' = [result EXCEPT ![p] = GetCurrentPlan(today, plans, week_offset)]
    /\ pc' = [pc EXCEPT ![p] = "done"]
    /\ UNCHANGED <<today, vault, summarizerCalls, dismissLog>>

-----------------------------------------------------------------------------
(* The vault's sources, written outside the core *)

MaxMeetings == 2

TranscriptFiles ==
    { TextFile(5001, <<"long", "talk">>),
      TextFile(5000, <<"talk">>),
      TextFile(6000, <<"long", "talk", "more">>) }

\* GoogleDocsSync.sync writes a new transcript, named by its creation date
SyncMeeting(d, f) ==
    /\ d <= today
    /\ ~Exists(meetings[d])
    /\ Cardinality(FilesIn(meetings)) < MaxMeetings
    /\ meetings' = [meetings EXCEPT ![d] = f]
    /\ UNCHANGED <<today, daily, summaries, thoughts, seedFiles, plans, dismissedFile,
                   pc, op, loc, result, summarizerCalls, dismissLog>>

\* the operator edits a transcript in the vault
EditMeeting(d, f) ==
    /\ Exists(meetings[d])
    /\ meetings[d] # f
    /\ meetings' = [meetings EXCEPT ![d] = f]
    /\ UNCHANGED <<today, daily, summaries, thoughts, seedFiles, plans, dismissedFile,
                   pc, op, loc, result, summarizerCalls, dismissLog>>

-----------------------------------------------------------------------------
(* Specifications *)

NoRequests ==
    /\ pc = [p \in Procs |-> "idle"]
    /\ op = [p \in Procs |-> "none"]
    /\ loc = [p \in Procs |-> NoLoc]
    /\ result = [p \in Procs |-> NoResult]

EmptyDir == [d \in Days |-> NoFile]

\* Material collection with the summary cache, driven by seed generation
MeetingDays == {0, 1}
SummaryFirstDay == 7
SummaryLastDay == 8
SummaryProcs == {"r1"}

InitSummary ==
    /\ today = SummaryFirstDay
    /\ daily = EmptyDir
    /\ meetings = EmptyDir
    /\ summaries = EmptyDir
    /\ thoughts = EmptyDir
    /\ seedFiles = [w \in Weeks |-> NoFile]
    /\ plans = [w \in Weeks |-> NoFile]
    /\ dismissedFile = NoFile
    /\ NoRequests
    /\ summarizerCalls = [d \in Days |-> 0]
    /\ dismissLog = <<>>

NextSummary ==
    \/ \E d \in MeetingDays, f \in TranscriptFiles : SyncMeeting(d, f)
    \/ \E d \in MeetingDays, f \in TranscriptFiles : EditMeeting(d, f)
    \/ \E p \in SummaryProcs : GenSeedsStart(p)
    \/ \E p \in SummaryProcs : CollectMeeting(p)
    \/ \E p \in SummaryProcs, o \in Outcomes(SummaryStdouts), w \in BOOLEAN : SummarizeReturn(p, o, w)
    \/ \E p \in SummaryProcs : CollectFinish(p)
    \/ \E p \in SummaryProcs, o \in Outcomes({<<"Seed #1: X">>}), w \in BOOLEAN : GenSeedsReturn(p, o, w)
    \/ \E p \in SummaryProcs : Finish(p)
    \/ today < SummaryLastDay /\ Tick

SpecSummary == InitSummary /\ [][NextSummary]_vars

\* The dismissal registry alone; dismissLog records each call of
\* dismiss_seeds: its argument, the set it loaded, the set it saved and the
\* count it returned
MaxDismiss == 2

Note == [text |-> <<"note">>]

SeedsWeek0 == <<"<b>", "Seed #1: X", "</b>", "\n", "hook", "\n", "Seed #2: Y", "\n">>
SeedsWeek1 == <<"Seed #1: Y", "\n", "hook">>

InitVaultWithSeeds ==
    /\ daily = [EmptyDir EXCEPT ![0] = Note, ![DaysPerWeek] = Note]
    /\ meetings = EmptyDir
    /\ summaries = EmptyDir
    /\ thoughts = EmptyDir
    /\ seedFiles = [w \in Weeks |->
                      IF w = 0 THEN ArtifactFile(Strip(SeedsWeek0), 0, "content-seeds")
                      ELSE IF w = 1
                      THEN ArtifactFile(Strip(SeedsWeek1), DaysPerWeek, "content-seeds")
                      ELSE NoFile]
    /\ plans = [w \in Weeks |-> NoFile]
    /\ summarizerCalls = [d \in Days |-> 0]
    /\ NoRequests

RegistryStates ==
    {NoFile, NotJsonRecord, WrongShapeRecord, DismissedRecord(<<>>)}

InitDismissal ==
    /\ InitVaultWithSeeds
    /\ today = DaysPerWeek
    /\ dismissedFile \in RegistryStates
    /\ dismissLog = <<>>

DismissLogged(p, seeds) ==
    /\ DismissSeeds(p, seeds)
    /\ dismissLog' =
           LET e == [seeds |-> seeds,
                     before |-> LoadDismissed(dismissedFile),
                     after |-> LoadDismissed(dismissedFile'),
                     count |-> result'[p].count]
               log == dismissLog \o <<e>>
           IN IF Len(log) > 2 THEN Tail(log) ELSE log

DismissalProcs == {"r1"}

NextDismissal ==
    \/ \E p \in DismissalProcs :
         \E seeds \in SeqsUpTo(Range(ExtractSeedTitles(seedFiles)), MaxDismiss) :
            DismissLogged(p, seeds)
    \/ \E p \in DismissalProcs : Finish(p)

SpecDismissal == InitDismissal /\ [][NextDismissal]_vars

\* Seed generation, dismissal and the unpublished listing
ListingLastDay == 7
ListingProcs == {"r1"}

InitListing ==
    /\ today = 0
    /\ daily = [EmptyDir EXCEPT ![0] = Note, ![DaysPerWeek] = Note]
    /\ meetings = EmptyDir
    /\ summaries = EmptyDir
    /\ thoughts = EmptyDir
    /\ seedFiles = [w \in Weeks |-> NoFile]
    /\ plans = [w \in Weeks |-> NoFile]
    /\ dismissedFile = NoFile
    /\ summarizerCalls = [d \in Days |-> 0]
    /\ dismissLog = <<>>
    /\ NoRequests

NextListing ==
    \/ \E p \in ListingProcs : GenSeedsStart(p)
    \/ \E p \in ListingProcs : CollectFinish(p)
    \/ \E p \in ListingProcs, o \in Outcomes(SeedStdouts), w \in BOOLEAN :
          GenSeedsReturn(p, o, w)
    \/ \E p \in ListingProcs :
         \E seeds \in SeqsUpTo(Range(ExtractSeedTitles(seedFiles)), MaxDismiss) :
            DismissSeeds(p, seeds) /\ UNCHANGED dismissLog
    \/ \E p \in ListingProcs : ListStart(p)
    \/ \E p \in ListingProcs :
         \E o \in Outcomes(MatcherStdouts) \cup {Exit(1, <<"1">>, "")} : ListReturn(p, o)
    \/ \E p \in ListingProcs : Finish(p)
    \/ today + DaysPerWeek <= ListingLastDay /\ TickWeek

SpecListing == InitListing /\ [][NextListing]_vars

\* The plan store: generation from both entry points, edit, reconcile and
\* reading, by two concurrent requests, over the turn of a week
PlanLastDay == 7

InitPlan ==
    /\ InitVaultWithSeeds
    /\ today = 0
    /\ dismissedFile = NoFile
    /\ dismissLog = <<>>

NextPlan ==
    \/ \E p \in Procs : OnPlanNew(p)
    \/ \E p \in Procs : CmdPlan(p)
    \/ \E p \in Procs, o \in Outcomes(PlanStdouts), w \in BOOLEAN : GenPlanReturn(p, o, w)
    \/ \E p \in Procs, r \in EditRequests : EditPlanStart(p, r)
    \/ \E p \in Procs, o \in Outcomes(PlanStdouts), w \in BOOLEAN : EditPlanReturn(p, o, w)
    \/ \E p \in Procs, c \in ChannelPosts : ReconcileStart(p, c)
    \/ \E p \in Procs, o \in Outcomes(PlanStdouts), w \in BOOLEAN : ReconcileReturn(p, o, w)
    \/ \E p \in Procs, k \in {0, 1} : OnPlanCurrent(p, k)
    \/ \E p \in Procs : Finish(p)
    \/ today + DaysPerWeek <= PlanLastDay /\ TickWeek

SpecPlan == InitPlan /\ [][NextPlan]_vars

\* The listing over a long history of weekly seed files, some of their
\* seeds dismissed
MinHistory == 7

WeeklySeedFile(w) == ArtifactFile(Strip(SeedsWeek1), DaysPerWeek * w, "content-seeds")

InitLookback ==
    /\ today = MaxDay
    /\ daily = EmptyDir
    /\ meetings = EmptyDir
    /\ summaries = EmptyDir
    /\ thoughts = EmptyDir
    /\ \E present \in SUBSET Weeks :
          /\ Cardinality(present) >= MinHistory
          /\ seedFiles = [w \in Weeks |-> IF w \in present THEN WeeklySeedFile(w) ELSE NoFile]
    /\ plans = [w \in Weeks |-> NoFile]
    /\ dismissedFile \in {NoFile,
                          DismissedRecord(<<<<"0", 1>>, <<"1", 1>>>>),
                          DismissedRecord(<<<<ToString(MaxWeek), 1>>>>)}
    /\ summarizerCalls = [d \in Days |-> 0]
    /\ dismissLog = <<>>
    /\ NoRequests

NextLookback ==
    \/ \E p \in ListingProcs : ListStart(p)
    \/ \E p \in ListingProcs, o \in Outcomes(MatcherStdouts) : ListReturn(p, o)
    \/ \E p \in ListingProcs : Finish(p)

SpecLookback == InitLookback /\ [][NextLookback]_vars

\* Seed extraction over seed files of any content the generator or an editor
\* of the vault can leave: headers in order, out of order, repeated, or none
ExtractWeeks == 0..2

SeedBodies ==
    { <<"Seed #1: X", "\n", "hook", "\n", "**", "Seed #2: Y", "**">>,
      <<"Seed #2: X", "\n", "Seed #1: Y">>,
      <<"Seed #1: X", "\n", "hook", "\n", "Seed #1: Y">>,
      <<"note">> }

InitExtract ==
    /\ today = MaxDay
    /\ daily = EmptyDir
    /\ meetings = EmptyDir
    /\ summaries = EmptyDir
    /\ thoughts = EmptyDir
    /\ \E bodies \in [ExtractWeeks -> SeedBodies \cup {<<>>}] :
          seedFiles = [w \in Weeks |->
                         IF w \in ExtractWeeks /\ bodies[w] # <<>>
                         THEN ArtifactFile(bodies[w], DaysPerWeek * w, "content-seeds")
                         ELSE NoFile]
    /\ plans = [w \in Weeks |-> NoFile]
    /\ dismissedFile \in {NoFile, DismissedRecord(<<<<"0", 1>>>>)}
    /\ summarizerCalls = [d \in Days |-> 0]
    /\ dismissLog = <<>>
    /\ NoRequests

NextExtract ==
    \/ \E p \in ListingProcs : ListStart(p)
    \/ \E p \in ListingProcs, o \in {Exit(0, <<"n", "o", "n", "e">>, ""), TimeoutExpired} :
          ListReturn(p, o)
    \/ \E p \in ListingProcs : Finish(p)

SpecExtract == InitExtract /\ [][NextExtract]_vars

\* Every entry point over a vault in which a daily note, a seed file or the
\* plan of the week may be unreadable
FailureStdouts == {<<"Seed #1: X">>}

InitReadFailure ==
    /\ today = 0
    /\ daily \in {[EmptyDir EXCEPT ![0] = f] : f \in {Note, Unreadable}}
    /\ meetings = EmptyDir
    /\ summaries = EmptyDir
    /\ thoughts = EmptyDir
    /\ seedFiles \in {[[w \in Weeks |-> NoFile] EXCEPT ![0] = f] :
                        f \in {WeeklySeedFile(0), Unreadable}}
    /\ plans \in {[[w \in Weeks |-> NoFile] EXCEPT ![0] = f] :
                    f \in {NoFile, Unreadable, ArtifactFile(<<"Mon">>, 0, "content-plan")}}
    /\ dismissedFile = NoFile
    /\ summarizerCalls = [d \in Days |-> 0]
    /\ dismissLog = <<>>
    /\ NoRequests

NextReadFailure ==
    \/ \E p \in ListingProcs : GenSeedsStart(p)
    \/ \E p \in ListingProcs : GenSeedsRaises(p)
    \/ \E p \in ListingProcs : CollectFinish(p)
    \/ \E p \in ListingProcs, o \in Outcomes(FailureStdouts) : GenSeedsReturn(p, o, TRUE)
    \/ \E p \in ListingProcs : ListStart(p)
    \/ \E p \in ListingProcs : ListRaises(p)
    \/ \E p \in ListingProcs, o \in Outcomes({<<"1">>}) : ListReturn(p, o)
    \/ \E p \in ListingProcs : OnPlanNew(p)
    \/ \E p \in ListingProcs : GenPlanRaises(p)
    \/ \E p \in ListingProcs, o \in Outcomes(FailureStdouts) : GenPlanReturn(p, o, TRUE)
    \/ \E p \in ListingProcs, r \in EditRequests : EditPlanStart(p, r)
    \/ \E p \in ListingProcs, c \in ChannelPosts : ReconcileStart(p, c)
    \/ \E p \in ListingProcs, w \in {"edit", "reconcile"} : RevisePlanRaises(p, w)
    \/ \E p \in ListingProcs, o \in Outcomes(FailureStdouts) : EditPlanReturn(p, o, TRUE)
    \/ \E p \in ListingProcs, o \in Outcomes(FailureStdouts) : ReconcileReturn(p, o, TRUE)
    \/ \E p \in ListingProcs, k \in {0, 1} : OnPlanCurrent(p, k)
    \/ \E p \in ListingProcs, k \in {0, 1} : GetPlanRaises(p, k)
    \/ \E p \in ListingProcs : Finish(p)
    \/ \E p \in ListingProcs : Abandon(p)

SpecReadFailure == InitReadFailure /\ [][NextReadFailure]_vars

\* Two seed generations at once over one long transcript that has no
\* summary yet (cmd_content starts each in a thread of its own)
RaceMeetingDay == 1

InitRace ==
    /\ today = SummaryFirstDay
    /\ daily = EmptyDir
    /\ meetings = [EmptyDir EXCEPT ![RaceMeetingDay] = TextFile(5001, <<"long", "talk">>)]
    /\ summaries = EmptyDir
    /\ thoughts = EmptyDir
    /\ seedFiles = [w \in Weeks |-> NoFile]
    /\ plans = [w \in Weeks |-> NoFile]
    /\ dismissedFile = NoFile
    /\ NoRequests
    /\ summarizerCalls = [d \in Days |-> 0]
    /\ dismissLog = <<>>

NextRace ==
    \/ \E f \in TranscriptFiles : EditMeeting(RaceMeetingDay, f)
    \/ \E p \in Procs : GenSeedsStart(p)
    \/ \E p \in Procs : CollectMeeting(p)
    \/ \E p \in Procs, o \in Outcomes(SummaryStdouts), w \in BOOLEAN : SummarizeReturn(p, o, w)
    \/ \E p \in Procs : CollectFinish(p)
    \/ \E p \in Procs, o \in Outcomes({<<"Seed #1: X">>}) : GenSeedsReturn(p, o, TRUE)
    \/ \E p \in Procs : Finish(p)

SpecRace == InitRace /\ [][NextRace]_vars

\* Writers of one artifact at once: two dismiss_seeds calls on threads of
\* their own, two edits of the plan of one week
LastWriteStdouts == {<<"<b>", "Tue", "</b>">>, <<"Wed">>}

InitLastWrite ==
    /\ today = 0
    /\ daily = [EmptyDir EXCEPT ![0] = Note]
    /\ meetings = EmptyDir
    /\ summaries = EmptyDir
    /\ thoughts = EmptyDir
    /\ seedFiles = [w \in Weeks |->
                      IF w = 0 THEN ArtifactFile(Strip(SeedsWeek0), 0, "content-seeds")
                      ELSE NoFile]
    /\ plans = [w \in Weeks |->
                  IF w = 0 THEN ArtifactFile(<<"Mon">>, 0, "content-plan") ELSE NoFile]
    /\ summarizerCalls = [d \in Days |-> 0]
    /\ NoRequests
    /\ dismissedFile \in {NoFile, DismissedRecord(<<<<"1", 1>>>>)}
    /\ dismissLog = <<>>

NextLastWrite ==
    \/ \E p \in Procs :
         \E seeds \in SeqsUpTo(Range(ExtractSeedTitles(seedFiles)), 1) : DismissLoad(p, seeds)
    \/ \E p \in Procs : DismissSave(p)
    \/ \E p \in Procs, r \in EditRequests : EditPlanStart(p, r)
    \/ \E p \in Procs, o \in Outcomes(LastWriteStdouts) : EditPlanReturn(p, o, TRUE)
    \/ \E p \in Procs : Finish(p)

SpecLastWrite == InitLastWrite /\ [][NextLastWrite]_vars

\* Listing and dismissal over a dismissal record of any content
RecordContents ==
    {NoFile, Unreadable, NotJsonRecord, WrongShapeRecord,
     TopLevelListRecord(<<<<"0", 1>>>>), NumberMemberRecord,
     ObjectMemberRecord(<<<<"0", 1>>>>), ObjectMemberRecord(<<>>),
     DismissedRecord(<<>>), DismissedRecord(<<<<"1", 1>>>>)}

InitTolerance ==
    /\ InitVaultWithSeeds
    /\ today = DaysPerWeek
    /\ dismissedFile \in RecordContents
    /\ dismissLog = <<>>

NextTolerance ==
    \/ \E p \in ListingProcs : ListStart(p)
    \/ \E p \in ListingProcs, o \in Outcomes({<<"n", "o", "n", "e">>, <<"1">>}) : ListReturn(p, o)
    \/ \E p \in ListingProcs :
         \E seeds \in SeqsUpTo(Range(ExtractSeedTitles(seedFiles)), 1) :
            DismissSeeds(p, seeds) /\ UNCHANGED dismissLog
    \/ \E p \in ListingProcs : Finish(p)

SpecTolerance == InitTolerance /\ [][NextTolerance]_vars

\* Material collection over notes, transcripts and thoughts dated around
\* the edges of the window, with text, with whitespace only, or absent
WindowToday == 10

BlankNote == [text |-> <<"\n">>]
Transcript == TextFile(2, <<"talk">>)
BlankTranscript == TextFile(1, <<"\n">>)

DailyDates == {WindowToday - CollectDays, WindowToday - CollectDays + 1, WindowToday,
               WindowToday + 1}
MeetingDates == {WindowToday - CollectDays - 1, WindowToday - CollectDays, WindowToday + 1}
ThoughtDates == {WindowToday - CollectDays - 1, WindowToday - CollectDays}

DirsOver(dates, contents) ==
    {[d \in Days |-> IF d \in dates THEN c[d] ELSE NoFile] : c \in [dates -> contents]}

InitWindow ==
    /\ today = WindowToday
    /\ daily \in DirsOver(DailyDates, {NoFile, Note, BlankNote})
    /\ meetings \in DirsOver(MeetingDates, {NoFile, Transcript, BlankTranscript})
    /\ thoughts \in DirsOver(ThoughtDates, {NoFile, Transcript, BlankTranscript})
    /\ summaries = EmptyDir
    /\ seedFiles = [w \in Weeks |-> NoFile]
    /\ plans = [w \in Weeks |-> NoFile]
    /\ dismissedFile = NoFile
    /\ summarizerCalls = [d \in Days |-> 0]
    /\ dismissLog = <<>>
    /\ NoRequests

NextWindow ==
    \/ \E p \in SummaryProcs : GenSeedsStart(p)
    \/ \E p \in SummaryProcs : CollectMeeting(p)
    \/ \E p \in SummaryProcs : CollectFinish(p)
    \/ \E p \in SummaryProcs, o \in {Exit(1, <<>>, ""), Exit(0, <<"Seed #1: X">>, "")} :
          GenSeedsReturn(p, o, TRUE)

SpecWindow == InitWindow /\ [][NextWindow]_vars

\* Seed and plan generation over a vault that may hold no material and
\* holds no seed file until a generation has written one
InitPrecondition ==
    /\ today = 0
    /\ daily \in DirsOver({0}, {NoFile, Note, BlankNote})
    /\ meetings = EmptyDir
    /\ thoughts \in DirsOver({0}, {NoFile, BlankTranscript})
    /\ summaries = EmptyDir
    /\ seedFiles = [w \in Weeks |-> NoFile]
    /\ plans = [w \in Weeks |-> NoFile]
    /\ dismissedFile = NoFile
    /\ summarizerCalls = [d \in Days |-> 0]
    /\ dismissLog = <<>>
    /\ NoRequests

NextPrecondition ==
    \/ \E p \in SummaryProcs : GenSeedsStart(p)
    \/ \E p \in SummaryProcs : CollectFinish(p)
    \/ \E p \in SummaryProcs, o \in Outcomes(FailureStdouts), w \in BOOLEAN :
          GenSeedsReturn(p, o, w)
    \/ \E p \in SummaryProcs : OnPlanNew(p)
    \/ \E p \in SummaryProcs : CmdPlan(p)
    \/ \E p \in SummaryProcs, o \in Outcomes(PlanStdouts), w \in BOOLEAN : GenPlanReturn(p, o, w)
    \/ \E p \in SummaryProcs : Finish(p)

SpecPrecondition == InitPrecondition /\ [][NextPrecondition]_vars

-----------------------------------------------------------------------------
(* Claims on the summary cache (SpecSummary) *)

\* a non-empty cache entry exists for transcript n
HasSummary(n) == Exists(summaries[n]) /\ Strip(summaries[n].text) # <<>>

\* request p takes the transcript loop's next file in this step
TakesNext(p) ==
    /\ pc[p] = "collect"
    /\ loc[p].queue # <<>>
    /\ loc'[p].queue = Tail(loc[p].queue)

\* the transcript is in the collection window of request p, not blank and
\* longer than the threshold
LongInWindow(p, n) ==
    /\ Exists(meetings[n])
    /\ n >= loc[p].today - CollectDays
    /\ Strip(meetings[n].text) # <<>>
    /\ meetings[n].len > SummarizeThreshold

\* C6: once a transcript has a non-empty cache entry, no step invokes the
\* summarizer for it again, and a collection that reaches it while it is long
\* and in the window takes the cached summary, marked [SUMMARY], as its part.
C6_CacheHit ==
    [][\A n \in Days : HasSummary(n) =>
          /\ summarizerCalls'[n] = summarizerCalls[n]
          /\ \A p \in Procs :
                (TakesNext(p) /\ Head(loc[p].queue) = n /\ LongInWindow(p, n)) =>
                    /\ pc'[p] = "collect"
                    /\ loc'[p].parts = loc[p].parts \o
                         <<[kind |-> "MEETING", id |-> n,
                            content |-> <<"[SUMMARY]", "\n">> \o summaries[n].text]>>]_vars

\* C6 witness: a collection was served from the cache of a transcript that
\* was summarized exactly once
C6_Witness ==
    \E p \in Procs, n \in Days :
        /\ op[p] = "seeds"
        /\ n \in loc[p].hits
        /\ summarizerCalls[n] = 1
        /\ HasSummary(n)

\* the summarizer call failed: it raised, exited non-zero or printed nothing
SummarizerFailed(o) ==
    \/ o.kind # "exit"
    \/ o.returncode # 0
    \/ Strip(o.stdout) = <<>>

\* request p returns from a summarizer call in this step
ReturnsFromSummarizer(p) == pc[p] = "summarizing" /\ pc'[p] = "collect"

\* C7: a failed summarizer call raises nothing (collection goes on), yields
\* the transcript's text as read, and leaves the cache as it was; and a
\* collection that reaches a long transcript in its window without a
\* non-empty cache entry invokes the summarizer for it.
C7_SummarizerFallback ==
    [][\A p \in Procs :
          /\ (ReturnsFromSummarizer(p) /\ SummarizerFailed(loc'[p].sres)) =>
                /\ summaries' = summaries
                /\ loc'[p].parts = loc[p].parts \o
                     <<[kind |-> "MEETING", id |-> loc[p].cur, content |-> loc[p].curText]>>
          /\ \A n \in Days :
                (TakesNext(p) /\ Head(loc[p].queue) = n /\ LongInWindow(p, n)
                    /\ ~HasSummary(n)) =>
                    /\ pc'[p] = "summarizing"
                    /\ summarizerCalls'[n] = summarizerCalls[n] + 1]_vars

\* C7 witness: the second summarizer call for a transcript (the first left
\* no cache entry) has just failed: no cache entry, the text as read returned
C7_Witness ==
    \E p \in Procs :
        /\ pc[p] = "collect"
        /\ "kind" \in DOMAIN loc[p].sres
        /\ SummarizerFailed(loc[p].sres)
        /\ loc[p].parts # <<>>
        /\ LET part == loc[p].parts[Len(loc[p].parts)] IN
           /\ summarizerCalls[part.id] = 2
           /\ ~Exists(summaries[part.id])
           /\ part.content = meetings[part.id].text

-----------------------------------------------------------------------------
(* Claims on the dismissal registry (SpecDismissal) *)

KeysOf(seeds) == {<<seeds[i].week, seeds[i].num>> : i \in DOMAIN seeds}

\* C1: when two consecutive dismiss_seeds calls name the same single key k
\* and k was not in the registry before the first, the first returns 1, the
\* second 0, and the registry after both has one key more than before the
\* first; a call naming one new key several times returns 1.
C1_DismissIdempotent ==
    /\ \A i \in 1..(Len(dismissLog) - 1) :
          LET a == dismissLog[i]
              b == dismissLog[i + 1]
          IN \A k \in KeysOf(a.seeds) :
                (KeysOf(a.seeds) = {k} /\ KeysOf(b.seeds) = {k} /\ k \notin a.before) =>
                    /\ a.count = 1
                    /\ b.count = 0
                    /\ Cardinality(b.after) = Cardinality(a.before) + 1
                    /\ LoadDismissed(dismissedFile) = b.after
    /\ \A i \in DOMAIN dismissLog :
          LET a == dismissLog[i] IN
          (Cardinality(KeysOf(a.seeds)) = 1 /\ KeysOf(a.seeds) \cap a.before = {}) =>
              a.count = 1 /\ Cardinality(a.after) = Cardinality(a.before) + 1

\* C1 witness: a key was dismissed twice in a row, the first call naming it
\* twice, starting from a registry that held another key
C1_Witness ==
    /\ Len(dismissLog) = 2
    /\ Len(dismissLog[1].seeds) = 2
    /\ Cardinality(KeysOf(dismissLog[1].seeds)) = 1
    /\ KeysOf(dismissLog[2].seeds) = KeysOf(dismissLog[1].seeds)
    /\ dismissLog[1].before # {}
    /\ KeysOf(dismissLog[1].seeds) \cap dismissLog[1].before = {}
    /\ dismissLog[2].count = 0

-----------------------------------------------------------------------------
(* Claims on the unpublished listing (SpecListing) *)

\* request p has returned a listing (not an error) from list_unpublished_seeds
Listed(p) == pc[p] = "done" /\ op[p] = "list" /\ "seeds" \in DOMAIN result[p]

\* a seed record without its published flag
Bare(seed) ==
    [week |-> seed.week, num |-> seed.num, title |-> seed.title,
     full_text |-> seed.full_text]
BareSeq(seeds) == [i \in DOMAIN seeds |-> Bare(seeds[i])]

IsPublished(seed) == "published" \in DOMAIN seed /\ seed.published

\* the elements of seq at the positions satisfying Keep, in order
SubsequenceAt(seq, Keep(_)) ==
    LET F[i \in 1..(Len(seq) + 1)] ==
            IF i > Len(seq) THEN <<>>
            ELSE (IF Keep(i) THEN <<seq[i]>> ELSE <<>>) \o F[i + 1]
    IN F[1]

\* the answer is the token none, in any letter case, or a list of numbers
\* separated by commas
IsNone(s) == Len(s) = 4 /\ s[1] \in {"n", "N"} /\ s[2] \in {"o", "O"}
                /\ s[3] \in {"n", "N"} /\ s[4] \in {"e", "E"}
IsIndexList(s) ==
    /\ s # <<>>
    /\ \A i \in DOMAIN s : s[i] \in {"0", "1", "2", "3", ",", " "}
    /\ s[1] \notin {",", " "} /\ s[Len(s)] \notin {",", " "}
    /\ \A i \in 1..(Len(s) - 1) : s[i] = " " => s[i + 1] \notin {","}

\* the matcher call failed, or its answer is neither of the two forms
MatcherFailed(o) ==
    \/ o.kind # "exit"
    \/ o.returncode # 0
    \/ ~IsNone(Strip(o.stdout)) /\ ~IsIndexList(Strip(o.stdout))

\* C2: whenever the matcher call raised, timed out, exited non-zero or
\* answered with something that is neither an index list nor none, the
\* listing returned has every active seed in unpublished and
\* published_count = 0.
C2_MatcherFailOpen ==
    \A p \in Procs :
        (Listed(p) /\ MatcherFailed(loc[p].mres)) =>
            /\ result[p].published_count = 0
            /\ BareSeq(result[p].unpublished) = loc[p].active_seeds

\* the extracted seeds at the positions that are neither dismissed nor
\* flagged published in the result of request p
NotDismissed(p, i) == <<loc[p].all_seeds[i].week, loc[p].all_seeds[i].num>> \notin loc[p].dismissed
RankActive(p, i) == Cardinality({j \in 1..i : NotDismissed(p, j)})
Remaining(p) ==
    SubsequenceAt(loc[p].all_seeds,
        LAMBDA i : NotDismissed(p, i) /\ ~IsPublished(result[p].seeds[RankActive(p, i)]))

\* C4: a listing returns total = the number of extracted seeds,
\* dismissed_count = the number of extracted seeds whose key week:num is in
\* the registry, and unpublished = the extracted seeds neither dismissed nor
\* flagged published, in extraction order.
C4_ListingOverlay ==
    \A p \in Procs :
        Listed(p) =>
            /\ result[p].total = Len(loc[p].all_seeds)
            /\ result[p].dismissed_count =
                  Cardinality({i \in DOMAIN loc[p].all_seeds : ~NotDismissed(p, i)})
            /\ Len(result[p].seeds) = Len(loc[p].all_seeds) - result[p].dismissed_count
            /\ BareSeq(result[p].unpublished) = Remaining(p)

\* C4 witness: two seeds of one week, #1 dismissed, the matcher answered
\* none: unpublished is seed #2 alone, dismissed_count 1, total 2
C4_Witness ==
    \E p \in Procs :
        /\ Listed(p)
        /\ loc[p].mres.kind = "exit" /\ loc[p].mres.returncode = 0
        /\ IsNone(Strip(loc[p].mres.stdout))
        /\ result[p].total = 2 /\ result[p].dismissed_count = 1
        /\ Len(loc[p].all_seeds) = 2
        /\ loc[p].all_seeds[1].num = 1 /\ loc[p].all_seeds[2].num = 2
        /\ loc[p].dismissed = {<<loc[p].all_seeds[1].week, 1>>}
        /\ BareSeq(result[p].unpublished) = <<loc[p].all_seeds[2]>>

\* the numbers written in an answer: the values of its maximal digit runs
IsDigit(c) == c \in {"0", "1", "2", "3", "4", "5", "6", "7", "8", "9"}
RunValue(s, a, b) ==
    LET V[k \in (a - 1)..b] ==
            IF k = a - 1 THEN 0
            ELSE 10 * V[k - 1] + (CHOOSE d \in 0..9 : ToString(d) = s[k])
    IN V[b]
NumbersIn(s) ==
    {RunValue(s, a, b) : <<a, b>> \in
        {r \in (DOMAIN s) \X (DOMAIN s) :
            /\ r[1] <= r[2]
            /\ \A k \in r[1]..r[2] : IsDigit(s[k])
            /\ (r[1] = 1 \/ ~IsDigit(s[r[1] - 1]))
            /\ (r[2] = Len(s) \/ ~IsDigit(s[r[2] + 1]))}}

\* the indices a successful answer names
Named(o) ==
    IF o.kind = "exit" /\ o.returncode = 0 /\ ~IsNone(Strip(o.stdout))
    THEN NumbersIn(o.stdout) ELSE {}

\* C5: the listing's seeds are the dismissal-filtered seeds in their order,
\* numbered from 1; the seed at position i is flagged published exactly when
\* the successful answer names i, so a number outside 1..n flags no seed.
C5_MatcherIndices ==
    \A p \in Procs :
        (Listed(p) /\ loc[p].mres.kind = "exit") =>
            /\ BareSeq(result[p].seeds) =
                  SubsequenceAt(loc[p].all_seeds, LAMBDA i : NotDismissed(p, i))
            /\ \A i \in DOMAIN result[p].seeds :
                  result[p].seeds[i].published <=> i \in Named(loc[p].mres)
            /\ Cardinality({i \in DOMAIN result[p].seeds : result[p].seeds[i].published})
                  = Cardinality(Named(loc[p].mres) \cap DOMAIN result[p].seeds)

\* C5 witness: the first of two seeds was dismissed and the answer named 1
\* and the out-of-range 3: the remaining seed has index 1 and is flagged
C5_Witness ==
    \E p \in Procs :
        /\ Listed(p)
        /\ loc[p].mres.kind = "exit"
        /\ Named(loc[p].mres) = {1, 3}
        /\ Len(loc[p].all_seeds) = 2
        /\ ~NotDismissed(p, 1)
        /\ Len(result[p].seeds) = 1
        /\ Bare(result[p].seeds[1]) = loc[p].all_seeds[2]
        /\ result[p].seeds[1].published

-----------------------------------------------------------------------------
(* Claims on the plan store (SpecPlan) *)

\* request p returns from edit_plan or reconcile_plan_with_channel in this step
RevisionReturns(p) ==
    /\ op[p] \in {"edit", "reconcile"}
    /\ pc[p] = "generating"
    /\ pc'[p] = "done"

\* C3: a step in which edit or reconcile returns creates no plan for a week
\* that had none, also when the week changed since the plan was read
C3_ReviseNeverCreates ==
    [][\A p \in Procs : RevisionReturns(p) =>
          \A w \in Weeks : ~Exists(plans[w]) => ~Exists(plans'[w])]_vars

\* request p returns a report in this step and the plan of week w, which
\* existed, is no longer what it was
Overwrites(p, w) ==
    /\ op[p] \in {"plan", "edit", "reconcile"}
    /\ pc[p] = "generating"
    /\ pc'[p] = "done"
    /\ "report" \in DOMAIN result'[p]
    /\ Exists(plans[w])
    /\ plans'[w] # plans[w]

\* what a reader of week w gets from the store pl
ReadBack(pl, w) == GetCurrentPlan(DaysPerWeek * w, pl, 0)

C9_SmartWeekSelection ==
    \A p \in Procs :
        (op[p] = "plan" /\ pc[p] \in {"generating", "done"}) =>
            WeekOf(loc[p].today) =
                WeekOf(loc[p].requested) + (IF loc[p].exists0 THEN 1 ELSE 0)

-----------------------------------------------------------------------------
(* Claims on the lookback of the listing (SpecLookback) *)

\* the number of seed files newer than the file of week w
NewerFiles(w) == Cardinality({v \in Weeks : Exists(seedFiles[v]) /\ v > w})

\* the seeds a listing request holds or has returned
SeedsSeen(p) ==
    Range(BareSeq(loc[p].all_seeds))
        \cup (IF "seeds" \in DOMAIN result[p] THEN Range(BareSeq(result[p].seeds)) ELSE {})
        \cup (IF "unpublished" \in DOMAIN result[p]
              THEN Range(BareSeq(result[p].unpublished)) ELSE {})

-----------------------------------------------------------------------------
(* Claims on seed extraction (SpecExtract) *)

\* request p holds the list _extract_seed_titles returned
Extracted(p) == op[p] = "list" /\ pc[p] \in {"matching", "done"}

\* C11: in the list extract() returned, the seeds of a more recent artifact
\* come before those of an older one, and within one artifact the seed
\* numbers ascend, whatever the order of the headers in the body
C11_ExtractionOrdering ==
    \A p \in Procs : Extracted(p) =>
        LET seeds == loc[p].all_seeds IN
        \A i, j \in DOMAIN seeds : i < j =>
            /\ WeekIndex(seeds[i].week) >= WeekIndex(seeds[j].week)
            /\ seeds[i].week = seeds[j].week => seeds[i].num <= seeds[j].num

\* C18: in the list extract() returned, no two seed records have the same
\* composite key week_id:number
C18_CompositeKeyIdentity ==
    \A p \in Procs : Extracted(p) =>
        LET seeds == loc[p].all_seeds IN
        \A i, j \in DOMAIN seeds : i # j =>
            <<seeds[i].week, seeds[i].num>> # <<seeds[j].week, seeds[j].num>>

-----------------------------------------------------------------------------
(* Claims on the results of the core entry points *)

CoreOps == {"seeds", "plan", "edit", "reconcile", "list", "get"}

\* request p has the result of a core entry point
Returned(p) == pc[p] = "done" /\ op[p] \in CoreOps

SuccessShape(r) ==
    /\ {"report", "processed_entries"} \subseteq DOMAIN r
    /\ r.processed_entries = 1

FailureShape(r) ==
    /\ {"error", "processed_entries"} \subseteq DOMAIN r
    /\ r.processed_entries = 0

\* C12: every result of a core entry point is either a report with
\* processed_entries = 1 or an error message with processed_entries = 0
C12_UniformResultShape ==
    \A p \in Procs : Returned(p) => SuccessShape(result[p]) \/ FailureShape(result[p])

\* C13: no core entry point ends with an exception; a read that fails
\* before the delegated call ends in an error result
C13_NeverCrashes ==
    \A p \in Procs : op[p] \in CoreOps => pc[p] # "raised"

-----------------------------------------------------------------------------
(* Claims on the frame of the plan operations (SpecPlan) *)

PlanOps == {"plan", "edit", "reconcile"}

\* request p takes a step of a plan operation that does not return a report
PlanStepWithoutReport(p) ==
    /\ op'[p] \in PlanOps
    /\ pc[p] \in {"idle", "generating"}
    /\ pc'[p] # pc[p]
    /\ ~(pc'[p] = "done" /\ "report" \in DOMAIN result'[p])

\* C14: a plan operation that returns an error result has changed no plan
\* artifact and created none: each of its steps leaves the plan store as it was
C14_PlanErrorLeavesStore ==
    [][\A p \in Procs : PlanStepWithoutReport(p) => plans' = plans]_vars

\* an edit of an existing plan has come back from its delegated call with a
\* timeout error, and the plan reads as it did when the edit began
C14_Witness ==
    \E p \in Procs :
        /\ pc[p] = "done" /\ op[p] = "edit"
        /\ "error" \in DOMAIN result[p]
        /\ result[p].error = "Plan edit timed out"
        /\ "plan_data" \in DOMAIN loc[p]
        /\ ReadBack(plans, loc[p].plan_data.week).plan = loc[p].plan_data.plan

-----------------------------------------------------------------------------
(* Claims on the growth of the dismissal registry (SpecDismissal) *)

\* C15: over calls of dismiss_seeds that do not overlap, the registry after
\* a call is the registry before it united with the keys passed in, the next
\* call starts from that registry, and so no key is ever removed
C15_RegistryAppendOnly ==
    /\ \A i \in DOMAIN dismissLog :
          /\ dismissLog[i].after = dismissLog[i].before \cup KeysOf(dismissLog[i].seeds)
          /\ dismissLog[i].before \subseteq LoadDismissed(dismissedFile)
    /\ \A i \in 1..(Len(dismissLog) - 1) : dismissLog[i + 1].before = dismissLog[i].after
    /\ dismissLog # <<>> => LoadDismissed(dismissedFile) = dismissLog[Len(dismissLog)].after

\* two calls in a row, the second adding a key to a registry that already
\* held another one
C15_Witness ==
    /\ Len(dismissLog) = 2
    /\ dismissLog[2].before # {}
    /\ KeysOf(dismissLog[2].seeds) \cap dismissLog[2].before = {}
    /\ Cardinality(LoadDismissed(dismissedFile)) >= 2
    /\ dismissLog[1].after \subseteq LoadDismissed(dismissedFile)

-----------------------------------------------------------------------------
(* Claims on the life of a summary cache entry (SpecRace) *)

\* C16: once a non-empty cache entry exists for a transcript, no step of any
\* collection or summarization, in any interleaving, and no edit of the
\* transcript changes its content
C16_CacheEntryImmutable ==
    [][\A n \in Days : HasSummary(n) => summaries'[n] = summaries[n]]_vars

-----------------------------------------------------------------------------
(* Claims on the annotation of the listing (SpecListing) *)

HasFlag(seed) == "published" \in DOMAIN seed /\ seed.published \in BOOLEAN

\* C17: in every listing returned, on the success path and on the fallback
\* path, each seed has a boolean published flag and the unpublished list is
\* the returned seeds whose flag is false, in order
C17_AlwaysAnnotated ==
    \A p \in Procs : Listed(p) =>
        /\ \A i \in DOMAIN result[p].seeds : HasFlag(result[p].seeds[i])
        /\ result[p].unpublished =
              SubsequenceAt(result[p].seeds, LAMBDA i : ~result[p].seeds[i].published)

-----------------------------------------------------------------------------
(* Claims on the time of an operation's writes (SpecSummary) *)

artifacts == <<summaries, seedFiles, plans, dismissedFile>>

DelegatingOps == {"seeds", "plan", "edit", "reconcile", "list"}

\* request p takes a step of a delegating operation
StepOf(p) ==
    /\ op'[p] \in DelegatingOps
    /\ pc[p] # "done"
    /\ pc'[p] # pc[p] \/ loc'[p] # loc[p]

\* the step is the successful return of p's delegated generation call
GenerationSucceeds(p) ==
    /\ pc[p] \in {"generating", "matching"}
    /\ pc'[p] = "done"
    /\ "error" \notin DOMAIN result'[p]

\* C19: an operation writes no plan, seed artifact, dismissal record or
\* summary cache entry in any step other than the successful return of its
\* delegated generation call
C19_NoWriteBeforeReturn ==
    [][\A p \in Procs : (StepOf(p) /\ ~GenerationSucceeds(p)) => artifacts' = artifacts]_vars

-----------------------------------------------------------------------------
(* Claims on concurrent writers (SpecLastWrite) *)

\* C20: the registry a dismiss call leaves is the set it loaded plus its own
\* keys, whatever another call saved in between, so after two overlapping
\* calls the registry is that of the later saver; and the plan an edit
\* leaves is made of the body it saved, whatever another edit saved before
C20_LastWriteWins ==
    [][\A p \in Procs :
          /\ (pc[p] = "dismissing" /\ pc'[p] = "done") =>
                LoadDismissed(dismissedFile') = loc[p].dismissed \cup KeysOf(loc[p].seeds)
          /\ (op[p] = "edit" /\ pc[p] = "generating" /\ pc'[p] = "done"
                /\ "report" \in DOMAIN result'[p]) =>
                LET w == WeekOf(today) IN
                /\ ReadBack(plans', w).plan = Strip(HtmlToMarkdown(result'[p].report))
                /\ plans'[w].text =
                      Frontmatter(today, "content-plan") \o HtmlToMarkdown(result'[p].report)]_vars

\* two dismiss calls loaded the same registry, both have saved, and the
\* registry holds the key of one of them but not the key the other added
C20_Witness ==
    \E p, q \in Procs :
        /\ p # q
        /\ pc[p] = "done" /\ op[p] = "dismiss" /\ "dismissed" \in DOMAIN loc[p]
        /\ pc[q] = "done" /\ op[q] = "dismiss" /\ "dismissed" \in DOMAIN loc[q]
        /\ loc[p].dismissed = loc[q].dismissed
        /\ loc[p].dismissed # {}
        /\ result[p].count = 1 /\ result[q].count = 1
        /\ KeysOf(loc[p].seeds) # KeysOf(loc[q].seeds)
        /\ LoadDismissed(dismissedFile) = loc[p].dismissed \cup KeysOf(loc[p].seeds)
        /\ KeysOf(loc[q].seeds) \cap LoadDismissed(dismissedFile) = {}

-----------------------------------------------------------------------------
(* Claims on the loading of the dismissal record (SpecTolerance) *)

\* the record is missing, unreadable, not JSON, a top level value that is
\* not an object, or an object whose "dismissed" member is a number
LoadsAsEmpty(f) ==
    \/ f \in {NoFile, Unreadable}
    \/ f.json \in {"invalid", "list", "object/number"}

\* the record is an object whose "dismissed" member is itself an object
HoldsObjectMember(f) == f \notin {NoFile, Unreadable} /\ f.json = "object/object"

\* request p has loaded the record and no dismiss has run since
Loaded(p) == op[p] = "list" /\ pc[p] \in {"matching", "done"} /\ "dismissed" \in DOMAIN loc[p]

-----------------------------------------------------------------------------
(* Claims on the collection window (SpecWindow) *)

\* the text has a character that is not whitespace
HasText(f) == \E i \in DOMAIN f.text : f.text[i] \notin {" ", "\n"}

\* the kind and date of every part of the material request p collected
Collected(p) == {<<loc[p].parts[i].kind, loc[p].parts[i].id>> : i \in DOMAIN loc[p].parts}

\* request p has finished _collect_raw_material
CollectionDone(p) ==
    /\ op[p] = "seeds"
    /\ pc[p] \in {"generating", "done"}
    /\ "parts" \in DOMAIN loc[p]

\* what the window admits, given which files count as having content
Admitted(t, Content(_)) ==
    {<<"DAILY", d>> : d \in {e \in Days : /\ t - 7 + 1 <= e /\ e <= t
                                          /\ Exists(daily[e]) /\ Content(daily[e])}}
    \cup {<<"MEETING", d>> : d \in {e \in Days : /\ e >= t - 7
                                                 /\ Exists(meetings[e]) /\ Content(meetings[e])}}
    \cup {<<"THOUGHT", d>> : d \in {e \in Days : /\ e >= t - 7
                                                 /\ Exists(thoughts[e]) /\ Content(thoughts[e])}}

\* C22 (as amended): the material holds a daily note iff its date d has
\* today-days+1 <= d <= today and its content is not blank, and a transcript
\* or thought iff its date is on or after today-days and its content is not
\* blank; a file of whitespace only is left out
C22_CollectionWindow ==
    \A p \in Procs : CollectionDone(p) => Collected(p) = Admitted(loc[p].today, HasText)

\* C22 as stated: every file of the window whose content is not empty is
\* part of the material
C22_WindowOfNonEmpty ==
    \A p \in Procs : CollectionDone(p) =>
        Collected(p) = Admitted(loc[p].today, LAMBDA f : f.text # <<>>)

\* a collection took the notes of today-6 and today and the transcripts of
\* today-7 and tomorrow, and left out the note of today-7, the transcript of
\* today-8 and a thought of whitespace only
C22_Witness ==
    \E p \in Procs :
        /\ CollectionDone(p) /\ pc[p] = "generating"
        /\ Collected(p) = {<<"DAILY", today - 6>>, <<"DAILY", today>>,
                           <<"MEETING", today - 7>>, <<"MEETING", today + 1>>}
        /\ daily[today - 7] = Note
        /\ daily[today + 1] = Note
        /\ meetings[today - 8] = Transcript
        /\ thoughts[today - 7] = BlankTranscript

-----------------------------------------------------------------------------
(* Claims on unmet preconditions (SpecPrecondition) *)

\* request p ends _collect_raw_material in this step with nothing collected
CollectsNothing(p) ==
    /\ op[p] = "seeds" /\ pc[p] = "collect" /\ pc'[p] # "collect"
    /\ loc'[p].parts = <<>>

\* request p begins a plan generation in this step while no seed file exists
PlansWithoutSeeds(p) ==
    /\ pc[p] = "idle" /\ op'[p] = "plan" /\ pc'[p] # "idle"
    /\ \A w \in Weeks : ~Exists(seedFiles[w])

\* C23: a seed generation whose window yields no material and a plan
\* generation without any seed file return an error with processed_entries
\* = 0 at once, without a call of the generator and without writing a seed
\* or plan artifact
C23_UnmetPreconditions ==
    [][\A p \in Procs : (CollectsNothing(p) \/ PlansWithoutSeeds(p)) =>
          /\ pc'[p] = "done"
          /\ FailureShape(result'[p])
          /\ seedFiles' = seedFiles
          /\ plans' = plans]_vars

\* a seed generation over a vault whose only note and thought are blank has
\* returned its error, and the vault has no seed file
C23_Witness ==
    \E p \in Procs :
        /\ pc[p] = "done" /\ op[p] = "seeds"
        /\ loc[p].parts = <<>>
        /\ daily[0] = BlankNote /\ thoughts[0] = BlankTranscript
        /\ result[p].processed_entries = 0
        /\ \A w \in Weeks : ~Exists(seedFiles[w]) /\ ~Exists(plans[w])

-----------------------------------------------------------------------------
(* Regeneration of a week's seeds after a dismissal *)

InitRegenerate ==
    /\ InitListing
    /\ today = 0

\* dismissLog holds every dismiss_seeds call: at most two are made
NextRegenerate ==
    \/ \E p \in ListingProcs : GenSeedsStart(p)
    \/ \E p \in ListingProcs : CollectFinish(p)
    \/ \E p \in ListingProcs, o \in Outcomes(SeedStdouts), w \in BOOLEAN :
          GenSeedsReturn(p, o, w)
    \/ \E p \in ListingProcs :
         \E seeds \in SeqsUpTo(Range(ExtractSeedTitles(seedFiles)), MaxDismiss) :
            Len(dismissLog) < 2 /\ DismissLogged(p, seeds)
    \/ \E p \in ListingProcs : ListStart(p)
    \/ \E p \in ListingProcs :
         \E o \in Outcomes(MatcherStdouts) : ListReturn(p, o)
    \/ \E p \in ListingProcs : Finish(p)

SpecRegenerate == InitRegenerate /\ [][NextRegenerate]_vars

-----------------------------------------------------------------------------
(* Listings by two requests over one set of seeds, with dismissals *)

InitPublication ==
    /\ InitVaultWithSeeds
    /\ today = DaysPerWeek
    /\ dismissedFile = NoFile
    /\ dismissLog = <<>>

NextPublication ==
    \/ \E p \in Procs : ListStart(p)
    \/ \E p \in Procs, o \in Outcomes(MatcherStdouts) : ListReturn(p, o)
    \/ \E p \in Procs :
         \E seeds \in SeqsUpTo(Range(ExtractSeedTitles(seedFiles)), MaxDismiss) :
            Len(dismissLog) < 2 /\ DismissLogged(p, seeds)
    \/ \E p \in Procs : Finish(p)

SpecPublication == InitPublication /\ [][NextPublication]_vars

-----------------------------------------------------------------------------
(* run_with_progress of on_plan_new: the handler coroutine polls the task
   that runs generate_content_plan in a worker thread *)

\* the slot of the handler coroutine and the slot of its task
Handler == "r2"
Worker == "r1"

\* asyncio.sleep(30)
PollSeconds == 30
MaxElapsed == 90

\* asyncio.create_task(asyncio.to_thread(...)); elapsed = 0
CreateTask(h) ==
    /\ pc[h] = "idle"
    /\ pc[Worker] = "idle"
    /\ pc' = [pc EXCEPT ![h] = "while"]
    /\ op' = [op EXCEPT ![h] = "run_with_progress"]
    /\ loc' = [loc EXCEPT ![h] =
                 [task_done |-> FALSE, elapsed |-> 0, updates |-> 0, late |-> FALSE]]
    /\ UNCHANGED <<today, vault, result, summarizerCalls, dismissLog>>

\* the worker thread has returned and the event loop marks the task done
TaskDone(h) ==
    /\ pc[h] \in {"while", "sleeping"}
    /\ pc[Worker] = "done"
    /\ ~loc[h].task_done
    /\ loc' = [loc EXCEPT ![h] = [@ EXCEPT !.task_done = TRUE]]
    /\ UNCHANGED <<today, vault, pc, op, result, summarizerCalls, dismissLog>>

\* while not task.done(): enter asyncio.sleep
WhileNotDone(h) ==
    /\ pc[h] = "while"
    /\ ~loc[h].task_done
    /\ pc' = [pc EXCEPT ![h] = "sleeping"]
    /\ UNCHANGED <<today, vault, op, loc, result, summarizerCalls, dismissLog>>

\* mutant of ProgressUpdate: the update is sent after every sleep
ProgressUpdateUnchecked(task_done) == TRUE

\* if not task.done(): status_msg.edit_text(...)
ProgressUpdate(task_done) == ~task_done

\* asyncio.sleep returns: elapsed += 30, then the update if the task is
\* still not done; late records an update sent for a task already done
SleepReturns(h) ==
    /\ pc[h] = "sleeping"
    /\ LET l == loc[h]
           sent == ProgressUpdate(l.task_done)
           elapsed == IF l.elapsed + PollSeconds <= MaxElapsed
                      THEN l.elapsed + PollSeconds ELSE l.elapsed
       IN loc' = [loc EXCEPT ![h] =
                    [task_done |-> l.task_done,
                     elapsed |-> elapsed,
                     updates |-> IF sent /\ l.updates * PollSeconds < MaxElapsed
                                 THEN l.updates + 1 ELSE l.updates,
                     late |-> l.late \/ (sent /\ l.task_done)]]
    /\ pc' = [pc EXCEPT ![h] = "while"]
    /\ UNCHANGED <<today, vault, op, result, summarizerCalls, dismissLog>>

\* the loop ends; return await task
AwaitTask(h) ==
    /\ pc[h] = "while"
    /\ loc[h].task_done
    /\ pc' = [pc EXCEPT ![h] = "done"]
    /\ result' = [result EXCEPT ![h] = result[Worker]]
    /\ UNCHANGED <<today, vault, op, loc, summarizerCalls, dismissLog>>

\* the thread of the task starts generate_content_plan
WorkerStarts == pc[Handler] \in {"while", "sleeping"} /\ OnPlanNew(Worker)

\* on_plan_new has sent the report: both slots are released, the task's
\* first
HandlerEnds ==
    \/ pc[Handler] = "done" /\ pc[Worker] = "done" /\ Finish(Worker)
    \/ pc[Handler] = "done" /\ pc[Worker] = "idle" /\ Finish(Handler)

SomePlan == ArtifactFile(<<"Mon", "\n", "post A">>, 0, "content-plan")

InitProgress ==
    /\ InitVaultWithSeeds
    /\ today = 0
    /\ \E f \in {NoFile, SomePlan} : plans = [w \in Weeks |-> IF w = 0 THEN f ELSE NoFile]
    /\ dismissedFile = NoFile
    /\ dismissLog = <<>>

WorkerReturns == \E o \in Outcomes(PlanStdouts), w \in BOOLEAN : GenPlanReturn(Worker, o, w)

NextProgress ==
    \/ CreateTask(Handler)
    \/ WorkerStarts
    \/ WorkerReturns
    \/ TaskDone(Handler)
    \/ WhileNotDone(Handler)
    \/ SleepReturns(Handler)
    \/ AwaitTask(Handler)
    \/ HandlerEnds

SpecProgress == InitProgress /\ [][NextProgress]_vars

\* subprocess.run returns or raises within its timeout, the thread pool
\* runs the task, and the event loop runs every ready callback and coroutine
SpecProgressFair ==
    /\ SpecProgress
    /\ WF_vars(WorkerStarts)
    /\ WF_vars(WorkerReturns)
    /\ WF_vars(TaskDone(Handler))
    /\ WF_vars(WhileNotDone(Handler))
    /\ WF_vars(SleepReturns(Handler))
    /\ WF_vars(AwaitTask(Handler))

-----------------------------------------------------------------------------
(* Claims on generation against an existing plan (SpecPlan) *)

\* request p, started by the plan:new button, returns from its generation
\* in this step
SmartGenerationReturns(p) ==
    /\ op[p] = "plan" /\ pc[p] = "generating" /\ pc'[p] = "done"
    /\ loc[p].entry = "plan:new"

\* C24: no generation started through the smart target selection replaces
\* a plan of the current week that exists when the generation saves
C24_NoClobbering ==
    [][\A p \in Procs : SmartGenerationReturns(p) =>
          LET w == WeekOf(today) IN
          Exists(plans[w]) => plans'[w] = plans[w]]_vars

\* request p returns a report from a plan operation in this step while no
\* other request is in progress
ReportsAlone(p) ==
    /\ op[p] \in PlanOps
    /\ pc[p] = "generating" /\ pc'[p] = "done"
    /\ SuccessShape(result'[p])
    /\ \A q \in Procs \ {p} : pc[q] = "idle"

\* the week a plan operation addresses: the generation's target date, or
\* the week of the plan an edit or reconciliation read
AddressedWeek(p) ==
    IF op[p] = "plan" THEN WeekOf(loc[p].today) ELSE loc[p].plan_data.week

\* C26: when a plan operation returns a report, the artifact of the week it
\* addresses holds the reported body (as the store converts it), whether or
\* not the write succeeded
C26_SuccessImpliesPersistence ==
    [][\A p \in Procs : ReportsAlone(p) =>
          LET got == ReadBack(plans', AddressedWeek(p))
          IN /\ "plan" \in DOMAIN got
             /\ got.plan = Strip(HtmlToMarkdown(result'[p].report))]_vars

\* request p returns from the delegated call of a plan operation in this step
PlanCallReturns(p) ==
    /\ op[p] \in PlanOps
    /\ pc[p] = "generating" /\ pc'[p] = "done"

\* week w of the store pl holds a plan whose body is not empty
HasBody(pl, w) ==
    /\ Exists(pl[w])
    /\ StripFrontmatter(pl[w].text) # <<>>

\* C27: no plan operation returns an empty report as a success, and the
\* return of a plan operation leaves no week that had a non-empty plan body
\* with an empty one
C27_EmptyOutputIsFailure ==
    [][\A p \in Procs : PlanCallReturns(p) =>
          /\ ~(SuccessShape(result'[p]) /\ result'[p].report = <<>>)
          /\ \A w \in Weeks : HasBody(plans, w) => HasBody(plans', w)]_vars

-----------------------------------------------------------------------------
(* Claims on dismissal across regeneration (SpecRegenerate) *)

\* the seeds dismiss_seeds was ever called on
EverDismissed == UNION {Range(dismissLog[i].seeds) : i \in DOMAIN dismissLog}

\* C25: a seed that was extracted but is missing from the listing is a seed
\* dismiss_seeds was called on (the same week, number, title and text)
C25_OnlyDismissedHidden ==
    \A p \in Procs :
        Listed(p) =>
            \A i \in DOMAIN loc[p].all_seeds :
                LET s == loc[p].all_seeds[i] IN
                s \notin Range(BareSeq(result[p].seeds)) => s \in EverDismissed

\* a is b with some elements left out, the others in the same order
RECURSIVE IsSubsequence(_, _)
IsSubsequence(a, b) ==
    IF a = <<>> THEN TRUE
    ELSE IF b = <<>> THEN FALSE
    ELSE IF Head(a) = Head(b) THEN IsSubsequence(Tail(a), Tail(b))
    ELSE IsSubsequence(a, Tail(b))

\* C29: in every listing, from the matcher's answer or from the fallback,
\* total = dismissed_count + len(seeds), len(seeds) = published_count +
\* len(unpublished), and unpublished is a subsequence of seeds
C29_CountConsistency ==
    \A p \in Procs :
        Listed(p) =>
            /\ result[p].total = result[p].dismissed_count + Len(result[p].seeds)
            /\ Len(result[p].seeds) =
                  result[p].published_count + Len(result[p].unpublished)
            /\ IsSubsequence(result[p].unpublished, result[p].seeds)

\* a listing of four seeds: one dismissed, one flagged published by the
\* matcher, two left unpublished
C29_Witness ==
    \E p \in Procs :
        /\ Listed(p)
        /\ loc[p].mres.kind = "exit"
        /\ result[p].total = 4
        /\ result[p].dismissed_count = 1
        /\ result[p].published_count = 1
        /\ Len(result[p].unpublished) = 2

-----------------------------------------------------------------------------
(* Claims on the publication flags (SpecPublication) *)

\* request p takes a step of list_unpublished_seeds
ListingStep(p) ==
    /\ op'[p] = "list"
    /\ pc[p] \in {"idle", "matching"}
    /\ pc'[p] # pc[p]

\* the keys dismiss_seeds was ever called on
KeysEverDismissed == {<<s.week, s.num>> : s \in EverDismissed}

\* the matcher of request p answered that nothing is published
AnsweredNone(p) ==
    /\ loc[p].mres.kind = "exit" /\ loc[p].mres.returncode = 0
    /\ IsNone(Strip(loc[p].mres.stdout))

\* C28: a step of list_unpublished_seeds changes neither the dismissal
\* registry nor a seed artifact nor a plan artifact; and a listing hides
\* only seeds whose key was dismissed and flags nothing when its own
\* matcher answered none, whatever earlier requests flagged
C28_PublicationNotPersisted ==
    /\ [][\A p \in Procs : ListingStep(p) =>
             /\ dismissedFile' = dismissedFile
             /\ seedFiles' = seedFiles
             /\ plans' = plans]_vars
    /\ [](\A p \in Procs : Listed(p) =>
             /\ \A s \in Range(ExtractSeedTitles(seedFiles)) :
                   s \notin Range(BareSeq(result[p].seeds)) =>
                       <<s.week, s.num>> \in KeysEverDismissed
             /\ AnsweredNone(p) =>
                   BareSeq(result[p].unpublished) = BareSeq(result[p].seeds))

\* one request's matcher flagged seed #1 of the newest week published; the
\* other request, over the same seeds, got the answer none and lists that
\* seed as unpublished
C28_Witness ==
    /\ Listed("r1") /\ Listed("r2")
    /\ dismissedFile = NoFile
    /\ IsPublished(result["r1"].seeds[1])
    /\ AnsweredNone("r2")
    /\ Bare(result["r1"].seeds[1]) = Bare(result["r2"].unpublished[1])

-----------------------------------------------------------------------------
(* Claims on termination (SpecProgressFair) *)

\* the wrapper has returned
WrapperReturned == pc[Handler] = "done" /\ op[Handler] = "run_with_progress"

\* C30: once its delegated call is dispatched, generate_content_plan
\* eventually returns a result, a report or an error, which does not change
\* afterwards; run_with_progress, once started, eventually returns; what it
\* returns is the task's result, after the task is done; and no progress
\* update is sent for a task that is done
C30_TerminatesWithResult ==
    /\ (pc[Worker] = "generating") ~>
          (pc[Worker] = "done"
             /\ (SuccessShape(result[Worker]) \/ FailureShape(result[Worker])))
    /\ [][pc[Worker] = "done" /\ pc'[Worker] = "done" =>
             result'[Worker] = result[Worker]]_vars
    /\ (pc[Handler] = "while") ~> WrapperReturned
    /\ [](WrapperReturned =>
             /\ loc[Handler].task_done
             /\ pc[Worker] = "done" => result[Handler] = result[Worker]
             /\ ~loc[Handler].late)
    /\ [](pc[Handler] \in {"while", "sleeping"} => ~loc[Handler].late)

\* the delegated call timed out after two progress updates, and the wrapper
\* has returned the task's error result
C30_Witness ==
    /\ WrapperReturned
    /\ pc[Worker] = "done"
    /\ result[Worker] = ErrorResult("Content plan generation timed out")
    /\ result[Handler] = result[Worker]
    /\ loc[Handler].updates = 2

====
